---------------------------- MODULE Spec2Model ----------------------------
(***************************************************************************)
(* A model of wsprot (sockheadrps/EventGen): the handler registry          *)
(* (wsprot/registry.py) and the validated dispatchers                      *)
(* (wsprot/dispatcher.py).                                                 *)
(*                                                                         *)
(* Python strings are sequences of one-character strings, so that          *)
(* str.startswith is computed and not assumed.  A JSON value is a record   *)
(* [t, v]: t its Python type, v its text.  A dict is a function from key   *)
(* names to JSON values.                                                   *)
(***************************************************************************)
EXTENDS Integers, Sequences, FiniteSets, TLC

VARIABLES
    cls_registry,   \* class name -> the _registry slot of that class's own __dict__
    heap,           \* the EventRegistry objects built so far; an object's id is its index
    thr,            \* the callers of HandlerBase.get_registry, each at a line of it
    disp,           \* the dispatcher under test (a Dispatcher or a MultiDispatcher)
    calls,          \* the dispatch calls in flight
    doc,            \* the document given to Protocol.from_dict
    protocol,       \* what Protocol.from_dict gave, and the Protocol object since
    reads,          \* what the reads of protocol.events returned, in order
    type_call,       \* the last Field.python_type call and what it returned
    filtered,       \* what the last calls of the two direction filters returned
    created,        \* the function attributes, and the class the last create_handler_class gave
    constructed,    \* what the last Dispatcher(message_type, handler) construction gave
    sessions,       \* the demo service's sessions: session id -> output directory
    disk,           \* the files under the service's output directories
    zips,           \* the archives in the temporary directory: file name -> entries
    downloads,      \* the download requests, each idle, being sent or done
    response        \* the last response of the other endpoints of the service

dispatchVars == <<cls_registry, heap, thr, disp, calls>>

schemaVars == <<doc, protocol, reads, type_call, filtered>>

factoryVars == <<created, constructed>>

serviceVars == <<sessions, disk, zips, downloads, response>>

\* what the registry and dispatcher operations leave alone
nonDispatchVars == <<schemaVars, factoryVars, serviceVars>>

\* what the schema operations leave alone
nonSchemaVars == <<dispatchVars, factoryVars, serviceVars>>

\* what the construction operations leave alone
nonFactoryVars == <<dispatchVars, schemaVars, serviceVars>>

\* what the demo service leaves alone
nonServiceVars == <<dispatchVars, schemaVars, factoryVars>>

vars == <<cls_registry, heap, thr, disp, calls, doc, protocol, reads, type_call, filtered,
          created, constructed, sessions, disk, zips, downloads, response>>

----------------------------------------------------------------------------
(* Bounds *)

MaxThreads == 2

MaxObjs == 3

MaxCalls == 2

MaxPairs == 2

MaxEvents == 4

MaxReads == 2

MaxHandlers == 2

\* members of the union a Dispatcher is constructed over
MaxMembers == 3

\* sessions the demo service registers
MaxSessions == 2

\* segments of the path given to the file-content endpoint
MaxSegments == 2

\* download requests, and the targets one of them names
MaxDownloads == 2

MaxTargets == 2

Threads == 1..MaxThreads

Calls == 1..MaxCalls

----------------------------------------------------------------------------
(* Event kinds (Python str values) *)

Ping == <<"p", "i", "n", "g">>

Pong == <<"p", "o", "n", "g">>

Join == <<"j", "o", "i", "n">>

Ghost == <<"g", "h", "o", "s", "t">>

ChatSend == <<"c", "h", "a", "t", ".", "s", "e", "n", "d">>

Kinds == {Ping, Pong, Join, Ghost, ChatSend}

\* str.startswith
StartsWith(s, p) == Len(p) <= Len(s) /\ SubSeq(s, 1, Len(p)) = p

----------------------------------------------------------------------------
(* Handler classes.  A class is its name; ClassMro is its __mro__ and       *)
(* ClassVars its own namespace (vars(klass)), in definition order.  A       *)
(* function object is named Class.method; on_event gives the               *)
(* _wsprot_event_handler attribute that the decorator set on it.            *)

Classes == {"HandlerBase", "Base", "Derived", "Shadow"}

NoEvent == <<>>

\* the function objects that carry _wsprot_event_handler
MarkedFns == {"Base.on_ping", "Base.on_join", "Derived.on_ping", "Derived.on_pong",
              "Shadow.on_send", "Plain.on_ping", "Plain.on_join"}

\* the functions defined with "async def"
AsyncFns == {"Base.on_join", "Derived.on_ping"}

NoFn == "None"

\* the event kind @on_event(...) stored on each marked function
on_event(fn) ==
    CASE fn = "Base.on_ping" -> Ping
      [] fn = "Base.on_join" -> Join
      [] fn = "Derived.on_ping" -> Ping
      [] fn = "Derived.on_pong" -> Pong
      [] fn = "Shadow.on_send" -> ChatSend
      [] fn = "Plain.on_ping" -> Ping
      [] fn = "Plain.on_join" -> Join
      [] OTHER -> NoEvent

\*   class Base(HandlerBase):   on_ping -> "ping" (A), on_join -> "join"
\*   class Derived(Base):       on_ping -> "ping" (B), on_pong -> "pong" (C)
\*   class Shadow(Base):        on_ping redefined without @on_event,
\*                              on_send -> "chat.send"
\*   class Plain(HandlerBase):  on_ping -> "ping", on_join -> "join", both "def"
ClassMro(cls) ==
    CASE cls = "HandlerBase" -> <<"HandlerBase", "object">>
      [] cls = "Base" -> <<"Base", "HandlerBase", "object">>
      [] cls = "Derived" -> <<"Derived", "Base", "HandlerBase", "object">>
      [] cls = "Shadow" -> <<"Shadow", "Base", "HandlerBase", "object">>
      [] cls = "Plain" -> <<"Plain", "HandlerBase", "object">>
      [] OTHER -> <<"object">>

ClassVars(cls) ==
    CASE cls = "Base" -> <<[name |-> "on_ping", fn |-> "Base.on_ping"],
                           [name |-> "on_join", fn |-> "Base.on_join"]>>
      [] cls = "Derived" -> <<[name |-> "on_ping", fn |-> "Derived.on_ping"],
                              [name |-> "on_pong", fn |-> "Derived.on_pong"]>>
      [] cls = "Shadow" -> <<[name |-> "on_ping", fn |-> "Shadow.on_ping"],
                             [name |-> "on_send", fn |-> "Shadow.on_send"]>>
      [] cls = "Plain" -> <<[name |-> "on_ping", fn |-> "Plain.on_ping"],
                            [name |-> "on_join", fn |-> "Plain.on_join"]>>
      [] OTHER -> <<>>

----------------------------------------------------------------------------
(* EventRegistry: _handlers is a function from event kinds to functions.    *)

EmptyRegistry == [k \in {} |-> NoFn]

RegistryRegister(handlers, event_type, handler) ==
    [k \in (DOMAIN handlers) \cup {event_type} |->
        IF k = event_type THEN handler ELSE handlers[k]]

RegistryGetHandler(handlers, event_type) ==
    IF event_type \in DOMAIN handlers THEN handlers[event_type] ELSE NoFn

RegistryHasHandler(handlers, event_type) == event_type \in DOMAIN handlers

\* the inner loop of from_class: the marked members of one class, in order
RECURSIVE ScanVars(_, _, _)
ScanVars(handlers, items, i) ==
    IF i > Len(items) THEN handlers
    ELSE ScanVars(IF items[i].fn \in MarkedFns
                  THEN RegistryRegister(handlers, on_event(items[i].fn), items[i].fn)
                  ELSE handlers,
                  items, i + 1)

\* (mutation of MroVisitOrder: the __mro__ walked without reversed())
MroVisitDerivedFirst(i, n) == i

\* reversed(handler_class.__mro__): the i-th class visited, of an __mro__ of length n
MroVisitOrder(i, n) == n + 1 - i

\* the outer loop of from_class: for klass in reversed(handler_class.__mro__)
RECURSIVE WalkMro(_, _, _)
WalkMro(handlers, mro, i) ==
    IF i > Len(mro) THEN handlers
    ELSE WalkMro(ScanVars(handlers, ClassVars(mro[MroVisitOrder(i, Len(mro))]), 1),
                 mro, i + 1)

FromClass(cls) == WalkMro(EmptyRegistry, ClassMro(cls), 1)

----------------------------------------------------------------------------
(* HandlerBase.get_registry.  A _registry slot is [present, obj]: whether   *)
(* the class's own __dict__ holds the attribute, and the object it holds    *)
(* (0 is None).                                                             *)

SlotAbsent == [present |-> FALSE, obj |-> 0]

SlotNone == [present |-> TRUE, obj |-> 0]

\* the attribute read cls._registry: the first class of the __mro__ that holds it
RECURSIVE LookupRegistry(_, _, _)
LookupRegistry(slots, mro, i) ==
    IF i > Len(mro) THEN 0
    ELSE IF mro[i] \in DOMAIN slots /\ slots[mro[i]].present THEN slots[mro[i]].obj
    ELSE LookupRegistry(slots, mro, i + 1)

\* (mutation of NeedsBuild: the test written "cls._registry is None", which
\* reads the attribute through the __mro__)
NeedsBuildInherited(slots, cls) == LookupRegistry(slots, ClassMro(cls), 1) = 0

\* (mutation of NeedsBuild: no caching)
NeedsBuildAlways(slots, cls) == TRUE

\* "_registry" not in cls.__dict__ or cls.__dict__["_registry"] is None
NeedsBuild(slots, cls) == ~slots[cls].present \/ slots[cls].obj = 0

\* the assignment cls._registry = obj
SetRegistry(slots, cls, obj) == [slots EXCEPT ![cls] = [present |-> TRUE, obj |-> obj]]

IdleThread == [pc |-> "idle", cls |-> "HandlerBase", ret |-> 0]

\* line 121: a caller enters get_registry (for the first time, or again after a
\* call that returned) and evaluates the condition
GetRegistryEnter(t, cls) ==
    /\ thr[t].pc \in {"idle", "done"}
    /\ thr' = [thr EXCEPT ![t] = [pc |-> IF NeedsBuild(cls_registry, cls)
                                         THEN "from_class" ELSE "return",
                                  cls |-> cls, ret |-> 0]]
    /\ UNCHANGED <<cls_registry, heap, disp, calls>>

\* line 122: cls._registry = EventRegistry.from_class(cls); the new object is
\* the caller's own until the assignment publishes it
GetRegistryBuild(t) ==
    /\ thr[t].pc = "from_class"
    /\ Len(heap) < MaxObjs
    /\ heap' = Append(heap, [cls |-> thr[t].cls, handlers |-> FromClass(thr[t].cls)])
    /\ cls_registry' = SetRegistry(cls_registry, thr[t].cls, Len(heap) + 1)
    /\ thr' = [thr EXCEPT ![t].pc = "return"]
    /\ UNCHANGED <<disp, calls>>

\* line 123: return cls._registry
GetRegistryReturn(t) ==
    /\ thr[t].pc = "return"
    /\ thr' = [thr EXCEPT ![t].pc = "done",
                          ![t].ret = LookupRegistry(cls_registry, ClassMro(thr[t].cls), 1)]
    /\ UNCHANGED <<cls_registry, heap, disp, calls>>

----------------------------------------------------------------------------
(* Python values *)

Str(v) == [t |-> "str", v |-> v]

PyInt(v) == [t |-> "int", v |-> v]

PyNone == [t |-> "NoneType", v |-> <<>>]

\* the types whose values cannot be dict keys
Unhashable == {"list", "dict"}

EmptyDict == [k \in {} |-> PyNone]

\* dict.get(key): None when the key is absent
DictGet(d, key) == IF key \in DOMAIN d THEN d[key] ELSE PyNone

\* a decoded JSON document: a dict, or something else (a list)
DictVal(d) == [t |-> "dict", d |-> d]

ListVal == [t |-> "list", d |-> EmptyDict]

NoVal == [t |-> "none", d |-> EmptyDict]

Lobby == <<"l", "o", "b", "b", "y">>

----------------------------------------------------------------------------
(* HandlerBase, called from one thread of control (the event loop): the     *)
(* whole of get_registry runs without interruption.  slots and hp are the   *)
(* class slots and the heap before the call; the result carries them after. *)

GetRegistry(slots, hp, cls) ==
    IF NeedsBuild(slots, cls)
    THEN [slots |-> SetRegistry(slots, cls, Len(hp) + 1),
          hp |-> Append(hp, [cls |-> cls, handlers |-> FromClass(cls)]),
          obj |-> LookupRegistry(SetRegistry(slots, cls, Len(hp) + 1), ClassMro(cls), 1)]
    ELSE [slots |-> slots, hp |-> hp, obj |-> LookupRegistry(slots, ClassMro(cls), 1)]

NoMethod == [fn |-> NoFn, self |-> "None"]

\* (mutation of BindMethod: the method is looked up again by the function's
\* name, getattr(self, unbound_method.__name__), which finds the first class of
\* the chain that defines that name)
BindMethodByName(unbound_method, cls) ==
    IF unbound_method = NoFn THEN NoMethod
    ELSE LET defs(k) == ClassVars(ClassMro(cls)[k])
             named(k, i) ==
                 \E b \in Classes : \E j \in 1..Len(ClassVars(b)) :
                     /\ ClassVars(b)[j].fn = unbound_method
                     /\ ClassVars(b)[j].name = defs(k)[i].name
             first == CHOOSE k \in 1..Len(ClassMro(cls)) :
                          /\ \E i \in 1..Len(defs(k)) : named(k, i)
                          /\ \A l \in 1..(k - 1) : \A i \in 1..Len(defs(l)) : ~named(l, i)
         IN [fn |-> defs(first)[CHOOSE i \in 1..Len(defs(first)) : named(first, i)].fn,
             self |-> cls]

\* unbound_method.__get__(self, type(self)), or None
BindMethod(unbound_method, cls) ==
    IF unbound_method = NoFn THEN NoMethod ELSE [fn |-> unbound_method, self |-> cls]

\* (mutation of GetHandlerIn: the lookup written self._handlers.pop(event_type,
\* None), which takes the registration out of the registry)
GetHandlerInPop(r, cls, event_type) ==
    [slots |-> r.slots,
     hp |-> IF event_type.t = "str"
            THEN [r.hp EXCEPT ![r.obj].handlers =
                     [k \in (DOMAIN r.hp[r.obj].handlers) \ {event_type.v} |->
                         r.hp[r.obj].handlers[k]]]
            ELSE r.hp,
     method |-> BindMethod(IF event_type.t = "str"
                           THEN RegistryGetHandler(r.hp[r.obj].handlers, event_type.v)
                           ELSE NoFn, cls)]

\* registry.get_handler(event_type) on the registry r that get_registry gave;
\* a key that is no str is in no registry
GetHandlerIn(r, cls, event_type) ==
    [slots |-> r.slots, hp |-> r.hp,
     method |-> BindMethod(IF event_type.t = "str"
                           THEN RegistryGetHandler(r.hp[r.obj].handlers, event_type.v)
                           ELSE NoFn, cls)]

\* HandlerBase.get_handler: the registered function bound to the instance, or None
GetHandler(slots, hp, cls, event_type) ==
    GetHandlerIn(GetRegistry(slots, hp, cls), cls, event_type)

\* registry.has_handler(event_type) on the registry r that get_registry gave:
\* event_type in self._handlers raises TypeError for an unhashable event_type
HasHandlerIn(r, event_type) ==
    [slots |-> r.slots, hp |-> r.hp,
     raised |-> IF event_type.t \in Unhashable THEN "TypeError" ELSE "",
     result |-> /\ event_type.t = "str"
                /\ RegistryHasHandler(r.hp[r.obj].handlers, event_type.v)]

\* HandlerBase.handles_event
HandlesEvent(slots, hp, cls, event_type) ==
    HasHandlerIn(GetRegistry(slots, hp, cls), event_type)

----------------------------------------------------------------------------
(* The protocol's union type (message_type): three members, discriminated   *)
(* by "type".  join carries a required str field room.                      *)

Discriminator == "type"

UnionKinds == {Join, Ping, ChatSend}

ModelClass(kind) ==
    CASE kind = Join -> "Join"
      [] kind = Ping -> "Ping"
      [] kind = ChatSend -> "ChatSend"
      [] OTHER -> "None"

RequiredFields(kind) == IF kind = Join THEN {"room"} ELSE {}

NoMessage == [model |-> "None", fields |-> EmptyDict]

\* TypeAdapter(message_type).validate_python(parsed): the member named by the
\* discriminator, built from its declared fields (other keys are ignored)
ValidatePython(parsed) ==
    IF Discriminator \notin DOMAIN parsed THEN [ok |-> FALSE, message |-> NoMessage]
    ELSE IF parsed[Discriminator].t # "str" \/ parsed[Discriminator].v \notin UnionKinds
         THEN [ok |-> FALSE, message |-> NoMessage]
    ELSE LET kind == parsed[Discriminator].v
         IN IF \E f \in RequiredFields(kind) : f \notin DOMAIN parsed \/ parsed[f].t # "str"
            THEN [ok |-> FALSE, message |-> NoMessage]
            ELSE [ok |-> TRUE,
                  message |-> [model |-> ModelClass(kind),
                               fields |-> [f \in {Discriminator} \cup RequiredFields(kind)
                                             |-> parsed[f]]]]

----------------------------------------------------------------------------
(* Inputs of dispatch.  form is the Python type of data; enc says what a    *)
(* str or bytes holds: JSON text of val, text that is not JSON, or bytes    *)
(* that are not validly encoded text.                                       *)

Inputs ==
    {[form |-> "str", enc |-> "garbage", val |-> NoVal],
     [form |-> "bytes", enc |-> "badutf8", val |-> NoVal],
     [form |-> "str", enc |-> "json", val |-> ListVal],
     [form |-> "str", enc |-> "json", val |-> DictVal([type |-> Str(Join), room |-> Str(Lobby)])],
     [form |-> "dict", enc |-> "obj",
      val |-> DictVal([type |-> Str(Join), room |-> Str(Lobby), extra |-> PyInt(<<"1">>)])],
     [form |-> "dict", enc |-> "obj", val |-> DictVal([type |-> Str(Join)])],
     [form |-> "dict", enc |-> "obj", val |-> DictVal([type |-> Str(Ghost)])],
     [form |-> "dict", enc |-> "obj", val |-> DictVal([room |-> Str(Lobby)])],
     [form |-> "bytes", enc |-> "json", val |-> DictVal([type |-> Str(Ping)])],
     [form |-> "dict", enc |-> "obj", val |-> DictVal([type |-> Str(Pong)])],
     [form |-> "dict", enc |-> "obj", val |-> DictVal([type |-> PyInt(<<"7">>)])],
     [form |-> "dict", enc |-> "obj", val |-> DictVal([type |-> Str(ChatSend)])]}

\* json.loads(data) for str or bytes data
JsonLoads(data) ==
    CASE data.enc = "badutf8" -> [raised |-> "UnicodeDecodeError", val |-> NoVal]
      [] data.enc = "garbage" -> [raised |-> "JSONDecodeError", val |-> NoVal]
      [] OTHER -> [raised |-> "", val |-> data.val]

\* the decode stage of Dispatcher.parse and of MultiDispatcher.dispatch: only
\* json.JSONDecodeError is caught and turned into ParseError
DecodeInput(data) ==
    LET loaded == IF data.form \in {"str", "bytes"} THEN JsonLoads(data)
                  ELSE [raised |-> "", val |-> data.val]
    IN IF loaded.raised = "JSONDecodeError" THEN [exc |-> "ParseError", parsed |-> EmptyDict]
       ELSE IF loaded.raised # "" THEN [exc |-> loaded.raised, parsed |-> EmptyDict]
       ELSE IF loaded.val.t # "dict" THEN [exc |-> "ParseError", parsed |-> EmptyDict]
       ELSE [exc |-> "", parsed |-> loaded.val.d]

\* the DispatchError family
DispatchErrors == {"ParseError", "ValidationError_", "UnknownEventError", "NoHandlerError"}

----------------------------------------------------------------------------
(* Outcomes of a call, and what a handler returns.  A handler's result is   *)
(* a value that names the method and the message it was given; calling an   *)
(* "async def" method gives a coroutine, which yields that value when it    *)
(* has been awaited to completion.                                          *)

NoValue == [t |-> "none", method |-> NoMethod, message |-> NoMessage]

HandlerValue(method, message) == [t |-> "value", method |-> method, message |-> message]

Coroutine(method, message) == [t |-> "coroutine", method |-> method, message |-> message]

NoOutcome == [kind |-> "none", exc |-> "", event_type |-> PyNone, value |-> NoValue]

Raised(exc, event_type) ==
    [kind |-> "raise", exc |-> exc, event_type |-> event_type, value |-> NoValue]

Returned(value) == [kind |-> "return", exc |-> "", event_type |-> PyNone, value |-> value]

IdleCall ==
    [pc |-> "idle", entry |-> "none", data |-> [form |-> "none", enc |-> "none", val |-> NoVal],
     invoked |-> <<>>, on_error_calls |-> <<>>, pending |-> NoOutcome, outcome |-> NoOutcome]

NewCall(entry, data) == [IdleCall EXCEPT !.entry = entry, !.data = data]

----------------------------------------------------------------------------
(* Dispatcher *)

NewDispatcher(handler, on_error) ==
    [kind |-> "Dispatcher", handler |-> handler, discriminator |-> Discriminator,
     on_error |-> on_error, handlers |-> <<>>, default_handler |-> "None"]

\* (mutation of ParseValidate: the decoded dict itself is passed on as the
\* message, not the model validate_python built from it)
ParseValidateRaw(d) ==
    IF d.exc # "" THEN [exc |-> d.exc, message |-> NoMessage]
    ELSE IF ValidatePython(d.parsed).ok
    THEN [exc |-> "", message |-> [model |-> "dict", fields |-> d.parsed]]
    ELSE [exc |-> "ValidationError_", message |-> NoMessage]

\* Dispatcher.parse, after the decode stage gave d: validate_python, whose
\* ValidationError becomes ValidationError_
ParseValidate(d) ==
    IF d.exc # "" THEN [exc |-> d.exc, message |-> NoMessage]
    ELSE IF ValidatePython(d.parsed).ok
    THEN [exc |-> "", message |-> ValidatePython(d.parsed).message]
    ELSE [exc |-> "ValidationError_", message |-> NoMessage]

\* Dispatcher.parse
Parse(data) == ParseValidate(DecodeInput(data))

\* Dispatcher.get_event_type: getattr(message, self.discriminator)
GetEventType(d, message) == message.fields[d.discriminator]

\* what the steps before the handler call give: the class slots and heap after
\* them, the error raised (if any, with the event type it carries), or the
\* bound method and the validated message
RouteFailed(slots, hp, exc, event_type) ==
    [slots |-> slots, hp |-> hp, exc |-> exc, event_type |-> event_type,
     message |-> NoMessage, method |-> NoMethod]

Routed(slots, hp, method, message) ==
    [slots |-> slots, hp |-> hp, exc |-> "", event_type |-> PyNone,
     message |-> message, method |-> method]

\* (mutation of RouteMethod: the other "no handler" error class is raised)
RouteMethodUnknownEvent(g, message, event_type) ==
    IF g.method = NoMethod THEN RouteFailed(g.slots, g.hp, "UnknownEventError", event_type)
    ELSE Routed(g.slots, g.hp, g.method, message)

\* if handler_method is None: raise NoHandlerError(event_type)
RouteMethod(g, message, event_type) ==
    IF g.method = NoMethod THEN RouteFailed(g.slots, g.hp, "NoHandlerError", event_type)
    ELSE Routed(g.slots, g.hp, g.method, message)

\* event_type = self.get_event_type(message);
\* handler_method = self.handler.get_handler(event_type)
RouteMessage(d, slots, hp, p) ==
    IF p.exc # "" THEN RouteFailed(slots, hp, p.exc, PyNone)
    ELSE RouteMethod(GetHandler(slots, hp, d.handler, GetEventType(d, p.message)),
                     p.message, GetEventType(d, p.message))

\* the body shared by dispatch (lines 205-213) and dispatch_sync (lines 236-244):
\* parse, read the event type, look the handler method up
ParseAndRoute(d, slots, hp, data) == RouteMessage(d, slots, hp, Parse(data))

\* the except clause of dispatch: which errors reach self.on_error
OnErrorReceives(d, exc) == exc \in DispatchErrors /\ d.on_error # "None"

Invocation(r) == [method |-> r.method, message |-> r.message]

\* the call as an awaiting entry point leaves it at its first suspension or at
\* its end: result = handler_method(message); if asyncio.iscoroutine(result):
\* result = await result; return result
InvokeAwaiting(call, r) ==
    IF r.method.fn \in AsyncFns
    THEN [call EXCEPT !.pc = "await_handler",
                      !.invoked = <<Invocation(r)>>,
                      !.pending = Returned(HandlerValue(r.method, r.message))]
    ELSE [call EXCEPT !.pc = "done",
                      !.invoked = <<Invocation(r)>>,
                      !.outcome = Returned(HandlerValue(r.method, r.message))]

\* except DispatchError as e: the callback, awaited if it gave a coroutine, then
\* raise; any other exception passes through
DispatchExcept(d, call, r) ==
    IF ~OnErrorReceives(d, r.exc)
    THEN [call EXCEPT !.pc = "done", !.outcome = Raised(r.exc, r.event_type)]
    ELSE IF d.on_error = "async"
    THEN [call EXCEPT !.pc = "await_on_error",
                      !.on_error_calls = <<[exc |-> r.exc, completed |-> FALSE]>>,
                      !.pending = Raised(r.exc, r.event_type)]
    ELSE [call EXCEPT !.pc = "done",
                      !.on_error_calls = <<[exc |-> r.exc, completed |-> TRUE]>>,
                      !.outcome = Raised(r.exc, r.event_type)]

\* the state after routing gave r and the call became next
CallStep(c, r, next) ==
    /\ cls_registry' = r.slots
    /\ heap' = r.hp
    /\ calls' = [calls EXCEPT ![c] = next]

\* (mutation of DispatchBody: the handler method is called before the outcome
\* of the earlier stages is looked at)
DispatchBodyInvokeFirst(c, call, r) ==
    CallStep(c, r, IF r.exc = "" THEN InvokeAwaiting(call, r)
                   ELSE DispatchExcept(disp, [call EXCEPT !.invoked = <<Invocation(r)>>], r))

\* the try block of dispatch, given the result r of the steps before the call
DispatchBody(c, call, r) ==
    CallStep(c, r, IF r.exc = "" THEN InvokeAwaiting(call, r)
                   ELSE DispatchExcept(disp, call, r))

\* Dispatcher.dispatch, up to its first suspension: it ends at once (a
\* synchronous handler returned, or an error with no asynchronous callback),
\* or it awaits the handler's coroutine, or it awaits the callback's
Dispatch(c, data) ==
    /\ disp.kind = "Dispatcher"
    /\ calls[c].pc \in {"idle", "done"}
    /\ DispatchBody(c, NewCall("dispatch", data),
                    ParseAndRoute(disp, cls_registry, heap, data))
    /\ UNCHANGED <<thr, disp>>

\* (mutation of HandlerCompletes: a call is resumed only while no other call is
\* waiting on a handler that never completes)
HandlerCompletesUnlessBlocked(c) ==
    /\ calls[c].pc = "await_handler"
    /\ \A o \in Calls \ {c} : calls[o].pc # "await_forever"
    /\ calls' = [calls EXCEPT ![c].pc = "done",
                              ![c].outcome = calls[c].pending,
                              ![c].pending = NoOutcome]
    /\ UNCHANGED <<cls_registry, heap, thr, disp>>

\* the awaited handler coroutine completes: result = await result; return result
HandlerCompletes(c) ==
    /\ calls[c].pc = "await_handler"
    /\ calls' = [calls EXCEPT ![c].pc = "done",
                              ![c].outcome = calls[c].pending,
                              ![c].pending = NoOutcome]
    /\ UNCHANGED <<cls_registry, heap, thr, disp>>

\* result = await result, on a coroutine that never completes: the call stays
\* suspended at the await, and nothing in the dispatcher resumes or cancels it
HandlerHangs(c) ==
    /\ calls[c].pc = "await_handler"
    /\ calls' = [calls EXCEPT ![c].pc = "await_forever"]
    /\ UNCHANGED <<cls_registry, heap, thr, disp>>

\* the awaited error callback completes: await error_result; raise
OnErrorCompletes(c) ==
    /\ calls[c].pc = "await_on_error"
    /\ calls' = [calls EXCEPT ![c].pc = "done",
                              ![c].on_error_calls[1].completed = TRUE,
                              ![c].outcome = calls[c].pending,
                              ![c].pending = NoOutcome]
    /\ UNCHANGED <<cls_registry, heap, thr, disp>>

\* (mutation of InvokeSync: the method is called and its result dropped, the
\* "return" forgotten)
InvokeSyncNoReturn(call, r) ==
    [call EXCEPT !.pc = "done",
                 !.invoked = <<Invocation(r)>>,
                 !.outcome = Returned(NoValue)]

\* return handler_method(message): what the method returns (for an "async def"
\* method, its coroutine) is returned as it is
InvokeSync(call, r) ==
    [call EXCEPT !.pc = "done",
                 !.invoked = <<Invocation(r)>>,
                 !.outcome = Returned(IF r.method.fn \in AsyncFns
                                      THEN Coroutine(r.method, r.message)
                                      ELSE HandlerValue(r.method, r.message))]

DispatchSyncBody(c, call, r) ==
    CallStep(c, r, IF r.exc = "" THEN InvokeSync(call, r)
                   ELSE [call EXCEPT !.pc = "done", !.outcome = Raised(r.exc, r.event_type)])

\* Dispatcher.dispatch_sync: no except clause and no await
DispatchSync(c, data) ==
    /\ disp.kind = "Dispatcher"
    /\ calls[c].pc \in {"idle", "done"}
    /\ DispatchSyncBody(c, NewCall("dispatch_sync", data),
                        ParseAndRoute(disp, cls_registry, heap, data))
    /\ UNCHANGED <<thr, disp>>

----------------------------------------------------------------------------
(* MultiDispatcher *)

NewMultiDispatcher ==
    [kind |-> "MultiDispatcher", handler |-> "None", discriminator |-> Discriminator,
     on_error |-> "None", handlers |-> <<>>, default_handler |-> "None"]

\* the argument prefix=None (no Python str is a sequence holding this element)
NoPrefix == <<"None">>

\* the handler instances and the arguments given to register and set_default
MultiHandlers == {"Shadow", "Derived"}

Prefixes == {NoPrefix, <<"p">>}

Matchers == {"None", "any"}

\* MultiDispatcher.register: a prefix, when given, replaces the matcher; with
\* neither, ValueError is raised and nothing is registered
Register(handler, prefix, matcher) ==
    /\ disp.kind = "MultiDispatcher"
    /\ Len(disp.handlers) < MaxPairs
    /\ disp' = IF prefix # NoPrefix
               THEN [disp EXCEPT !.handlers =
                        Append(@, [matcher |-> [kind |-> "prefix", p |-> prefix],
                                   handler |-> handler])]
               ELSE IF matcher = "None" THEN disp
               ELSE [disp EXCEPT !.handlers =
                        Append(@, [matcher |-> [kind |-> "custom", p |-> <<matcher>>],
                                   handler |-> handler])]
    /\ UNCHANGED <<cls_registry, heap, thr, calls>>

\* MultiDispatcher.set_default
SetDefault(handler) ==
    /\ disp.kind = "MultiDispatcher"
    /\ disp' = [disp EXCEPT !.default_handler = handler]
    /\ UNCHANGED <<cls_registry, heap, thr, calls>>

\* matcher(event_type): et.startswith(p) raises AttributeError unless et is a
\* str; the custom matcher "any" is lambda et: True
CallMatcher(matcher, event_type) ==
    IF matcher.kind = "prefix"
    THEN [raised |-> IF event_type.t = "str" THEN "" ELSE "AttributeError",
          result |-> event_type.t = "str" /\ StartsWith(event_type.v, matcher.p)]
    ELSE [raised |-> "", result |-> TRUE]

NotFound(slots, hp, raised) ==
    [slots |-> slots, hp |-> hp, raised |-> raised, handler |-> "None"]

Found(slots, hp, handler) ==
    [slots |-> slots, hp |-> hp, raised |-> "", handler |-> handler]

\* (mutation of PairQualifies: a pair is taken on its matcher alone)
PairQualifiesMatchOnly(m, h) == m.result

\* "matcher(event_type) and handler.handles_event(event_type)", given the two
\* results
PairQualifies(m, h) == m.result /\ h.result

RECURSIVE FindInPairs(_, _, _, _, _)

\* pair i, given the result h of its handler's handles_event
FindClaim(m, h, pairs, i, event_type) ==
    IF h.raised # "" THEN NotFound(h.slots, h.hp, h.raised)
    ELSE IF PairQualifies(m, h) THEN Found(h.slots, h.hp, pairs[i].handler)
    ELSE FindInPairs(h.slots, h.hp, pairs, i + 1, event_type)

\* pair i, given the result m of its matcher: "and" calls handles_event only
\* when the matcher matched
FindMatch(m, slots, hp, pairs, i, event_type) ==
    IF m.raised # "" THEN NotFound(slots, hp, m.raised)
    ELSE IF ~m.result THEN FindInPairs(slots, hp, pairs, i + 1, event_type)
    ELSE FindClaim(m, HandlesEvent(slots, hp, pairs[i].handler, event_type),
                   pairs, i, event_type)

\* the loop of _find_handler, from pair i on
FindInPairs(slots, hp, pairs, i, event_type) ==
    IF i > Len(pairs) THEN NotFound(slots, hp, "")
    ELSE FindMatch(CallMatcher(pairs[i].matcher, event_type), slots, hp, pairs, i, event_type)

\* the default handler, given the result h of its handles_event
FindDefaultClaim(d, h) ==
    IF h.raised = "" /\ h.result THEN Found(h.slots, h.hp, d.default_handler)
    ELSE NotFound(h.slots, h.hp, h.raised)

\* after the loop gave f: if self._default_handler and
\* self._default_handler.handles_event(event_type)
FindDefault(d, f, event_type) ==
    IF f.raised # "" \/ f.handler # "None" \/ d.default_handler = "None" THEN f
    ELSE FindDefaultClaim(d, HandlesEvent(f.slots, f.hp, d.default_handler, event_type))

\* MultiDispatcher._find_handler
FindHandler(d, slots, hp, event_type) ==
    FindDefault(d, FindInPairs(slots, hp, d.handlers, 1, event_type), event_type)

\* lines 333-345, given the handler f found and the validation result v
MultiValidated(f, v, event_type) ==
    IF ~v.ok THEN RouteFailed(f.slots, f.hp, "ValidationError_", PyNone)
    ELSE RouteMethod(GetHandler(f.slots, f.hp, f.handler, event_type), v.message, event_type)

\* lines 329-331, given the result f of _find_handler
MultiFound(f, parsed, event_type) ==
    IF f.raised # "" THEN RouteFailed(f.slots, f.hp, f.raised, PyNone)
    ELSE IF f.handler = "None" THEN RouteFailed(f.slots, f.hp, "NoHandlerError", event_type)
    ELSE MultiValidated(f, ValidatePython(parsed), event_type)

\* lines 324-326, given the discriminator's value in the raw dict
MultiDiscriminated(d, slots, hp, parsed, event_type) ==
    IF event_type = PyNone THEN RouteFailed(slots, hp, "ValidationError_", PyNone)
    ELSE MultiFound(FindHandler(d, slots, hp, event_type), parsed, event_type)

\* lines 312-324, given the result dec of the decode stage
MultiDecoded(d, slots, hp, dec) ==
    IF dec.exc # "" THEN RouteFailed(slots, hp, dec.exc, PyNone)
    ELSE MultiDiscriminated(d, slots, hp, dec.parsed, DictGet(dec.parsed, d.discriminator))

\* MultiDispatcher.dispatch up to the call of the handler method: decode, read
\* the discriminator from the raw dict, find the handler, validate, look the
\* method up
MultiRoute(d, slots, hp, data) == MultiDecoded(d, slots, hp, DecodeInput(data))

MultiDispatchBody(c, call, r) ==
    CallStep(c, r, IF r.exc = "" THEN InvokeAwaiting(call, r)
                   ELSE [call EXCEPT !.pc = "done", !.outcome = Raised(r.exc, r.event_type)])

\* MultiDispatcher.dispatch, up to its first suspension; it has no except
\* clause and no error callback
MultiDispatch(c, data) ==
    /\ disp.kind = "MultiDispatcher"
    /\ calls[c].pc \in {"idle", "done"}
    /\ MultiDispatchBody(c, NewCall("multi_dispatch", data),
                         MultiRoute(disp, cls_registry, heap, data))
    /\ UNCHANGED <<thr, disp>>

----------------------------------------------------------------------------
(* wsprot/schema.py: str values.  A str is a sequence of one-character      *)
(* strings; an ordered dict (a dict that is iterated) is the sequence of    *)
(* its items.                                                               *)

UpperChars ==
    <<"A", "B", "C", "D", "E", "F", "G", "H", "I", "J", "K", "L", "M",
      "N", "O", "P", "Q", "R", "S", "T", "U", "V", "W", "X", "Y", "Z">>

LowerChars ==
    <<"a", "b", "c", "d", "e", "f", "g", "h", "i", "j", "k", "l", "m",
      "n", "o", "p", "q", "r", "s", "t", "u", "v", "w", "x", "y", "z">>

LowerChar(ch) ==
    IF \E i \in DOMAIN UpperChars : UpperChars[i] = ch
    THEN LowerChars[CHOOSE i \in DOMAIN UpperChars : UpperChars[i] = ch]
    ELSE ch

\* str.lower()
Lower(s) == [i \in 1..Len(s) |-> LowerChar(s[i])]

PyBool(b) == [t |-> "bool", v |-> IF b THEN <<"T", "r", "u", "e">> ELSE <<"F", "a", "l", "s", "e">>]

\* dict.get(key, default)
DictGetOr(d, key, default) == IF key \in DOMAIN d THEN d[key] ELSE default

OrderedDict(items) == [t |-> "dict", items |-> items]

NoneDict == [t |-> "NoneType", items |-> <<>>]

\* key in d, for an ordered dict d
HasKey(d, key) == \E i \in 1..Len(d.items) : d.items[i].key = key

\* type tokens a schema may use
TStr == <<"s", "t", "r">>

TString == <<"s", "t", "r", "i", "n", "g">>

TStringCapital == <<"S", "t", "r", "i", "n", "g">>

TInt == <<"i", "n", "t">>

TFloat == <<"f", "l", "o", "a", "t">>

TBool == <<"b", "o", "o", "l">>

TColor == <<"C", "o", "l", "o", "r">>

TListOfStr == <<"l", "i", "s", "t", "[", "s", "t", "r", "]">>

\* TYPE_MAP, as its items
TYPE_MAP ==
    <<[key |-> TStr, value |-> TStr],
      [key |-> TString, value |-> TStr],
      [key |-> TInt, value |-> TInt],
      [key |-> <<"i", "n", "t", "e", "g", "e", "r">>, value |-> TInt],
      [key |-> TFloat, value |-> TFloat],
      [key |-> <<"n", "u", "m", "b", "e", "r">>, value |-> TFloat],
      [key |-> TBool, value |-> TBool],
      [key |-> <<"b", "o", "o", "l", "e", "a", "n">>, value |-> TBool],
      [key |-> <<"a", "n", "y">>, value |-> <<"A", "n", "y">>],
      [key |-> <<"n", "o", "n", "e">>, value |-> <<"N", "o", "n", "e">>],
      [key |-> <<"n", "u", "l", "l">>, value |-> <<"N", "o", "n", "e">>]>>

InTypeMap(token) == \E i \in DOMAIN TYPE_MAP : TYPE_MAP[i].key = token

TypeMapGet(token) == TYPE_MAP[CHOOSE i \in DOMAIN TYPE_MAP : TYPE_MAP[i].key = token].value

----------------------------------------------------------------------------
(* Field.  type and default hold the values the document gave ([t, v]       *)
(* records); required is a bool.                                            *)

NewField(name, type, required, default, description, alias) ==
    [name |-> name, type |-> type, required |-> required, default |-> default,
     description |-> description, alias |-> alias]

EnumSuffix == <<"E", "n", "u", "m">>

OrNone == <<" ", "|", " ", "N", "o", "n", "e">>

\* if custom_types and self.type in custom_types
CustomTypeFirst(fld, custom_types) ==
    /\ custom_types.t = "dict" /\ custom_types.items # <<>>
    /\ HasKey(custom_types, fld.type.v)

\* the first half of Field.python_type: base_type
BaseType(fld, custom_types) ==
    IF CustomTypeFirst(fld, custom_types) THEN fld.type.v \o EnumSuffix
    ELSE IF InTypeMap(Lower(fld.type.v)) THEN TypeMapGet(Lower(fld.type.v))
    ELSE fld.type.v

\* (mutation of WrapsOptional: a falsy default counts as no default)
WrapsOptionalFalsyDefault(fld) ==
    ~fld.required /\ (fld.default.t = "NoneType"
                      \/ fld.default.v \in {<<>>, <<"0">>, <<"F", "a", "l", "s", "e">>})

\* if not self.required and self.default is None
WrapsOptional(fld) == ~fld.required /\ fld.default.t = "NoneType"

\* Field.python_type
python_type(fld, custom_types) ==
    IF WrapsOptional(fld) THEN BaseType(fld, custom_types) \o OrNone
    ELSE BaseType(fld, custom_types)

----------------------------------------------------------------------------
(* Protocol.from_dict.  What an operation gives is [exc, arg, value]: the   *)
(* value it returned (exc = ""), or the exception it raised with its        *)
(* argument (the missing key of a KeyError, the rejected value of a         *)
(* ValueError).                                                             *)

Ok(value) == [exc |-> "", arg |-> "", value |-> value]

Raise(exc, arg) == [exc |-> exc, arg |-> arg, value |-> <<>>]

\* class Direction(Enum): member names and their values
CLIENT_TO_SERVER == "CLIENT_TO_SERVER"

SERVER_TO_CLIENT == "SERVER_TO_CLIENT"

BIDIRECTIONAL == "BIDIRECTIONAL"

DirectionValues == {"client_to_server", "server_to_client", "bidirectional"}

\* Direction(value), for a value that is one of the three
Direction(value) ==
    CASE value = "client_to_server" -> CLIENT_TO_SERVER
      [] value = "server_to_client" -> SERVER_TO_CLIENT
      [] value = "bidirectional" -> BIDIRECTIONAL

NewEvent(name, direction, fields, description, class_name, handler_group, feature) ==
    [name |-> name, direction |-> direction, fields |-> fields,
     description |-> description, class_name |-> class_name,
     handler_group |-> handler_group, feature |-> feature]

NewProtocol(name, events, version, description, types, features) ==
    [name |-> name, events |-> events, version |-> version,
     description |-> description, types |-> types, features |-> features]

\* Protocol._parse_fields from its i-th element on, fields being those built
RECURSIVE ParseFieldsFrom(_, _, _)
ParseFieldsFrom(fields_data, i, fields) ==
    IF i > Len(fields_data) THEN Ok(fields)
    ELSE IF "name" \notin DOMAIN fields_data[i] THEN Raise("KeyError", "name")
    ELSE IF "type" \notin DOMAIN fields_data[i] THEN Raise("KeyError", "type")
    ELSE ParseFieldsFrom(fields_data, i + 1,
            Append(fields, NewField(fields_data[i]["name"], fields_data[i]["type"],
                                    DictGetOr(fields_data[i], "required", TRUE),
                                    DictGet(fields_data[i], "default"),
                                    DictGet(fields_data[i], "description"),
                                    DictGet(fields_data[i], "alias"))))

\* cls._parse_fields(event_data.get("fields", []))
ParseFields(event_data) == ParseFieldsFrom(DictGetOr(event_data, "fields", <<>>), 1, <<>>)

\* the Event built in _parse_events, pf being what _parse_fields gave
SplitEvent(event_data, pf, direction) ==
    IF pf.exc # "" THEN pf
    ELSE IF "name" \notin DOMAIN event_data THEN Raise("KeyError", "name")
    ELSE Ok(NewEvent(event_data["name"], direction, pf.value,
                     DictGet(event_data, "description"), DictGet(event_data, "class_name"),
                     DictGet(event_data, "handler_group"), PyNone))

\* the Event built from an element of the top-level events list
UnifiedEvent(event_data, pf) ==
    IF pf.exc # "" THEN pf
    ELSE IF "name" \notin DOMAIN event_data THEN Raise("KeyError", "name")
    ELSE IF "direction" \notin DOMAIN event_data THEN Raise("KeyError", "direction")
    ELSE IF event_data["direction"] \notin DirectionValues
    THEN Raise("ValueError", event_data["direction"])
    ELSE Ok(NewEvent(event_data["name"], Direction(event_data["direction"]), pf.value,
                     DictGet(event_data, "description"), DictGet(event_data, "class_name"),
                     DictGet(event_data, "handler_group"), PyNone))

\* (mutation of PrefixedName: the feature name is used as it is written)
PrefixedNameAsWritten(feature_name, event_name) ==
    Str(feature_name \o <<".">> \o event_name.v)

\* f"{feature_name.lower()}.{event_data['name']}"
PrefixedName(feature_name, event_name) ==
    Str(Lower(feature_name) \o <<".">> \o event_name.v)

\* the Event built from an element of a feature's client or server list
FeatureEvent(event_data, pf, feature_name, direction) ==
    IF pf.exc # "" THEN pf
    ELSE IF "name" \notin DOMAIN event_data THEN Raise("KeyError", "name")
    ELSE Ok(NewEvent(PrefixedName(feature_name, event_data["name"]), direction, pf.value,
                     DictGet(event_data, "description"), DictGet(event_data, "class_name"),
                     DictGetOr(event_data, "handler_group", Str(Lower(feature_name))),
                     Str(feature_name)))

\* where a list of event definitions stands in the document
SplitSection(direction) == [kind |-> "split", direction |-> direction, feature |-> <<>>]

UnifiedSection == [kind |-> "unified", direction |-> "", feature |-> <<>>]

FeatureSection(feature_name, direction) ==
    [kind |-> "feature", direction |-> direction, feature |-> feature_name]

BuildEvent(event_data, section) ==
    CASE section.kind = "split" ->
            SplitEvent(event_data, ParseFields(event_data), section.direction)
      [] section.kind = "unified" ->
            UnifiedEvent(event_data, ParseFields(event_data))
      [] section.kind = "feature" ->
            FeatureEvent(event_data, ParseFields(event_data), section.feature,
                         section.direction)

\* (mutation of Extend: the events of a later section are put before those
\* already parsed)
ExtendInFront(acc, built) ==
    IF built.exc # "" THEN built ELSE Ok(<<built.value>> \o acc.value)

\* (mutation of Extend: an event whose name is already in the list is refused)
ExtendRejectDuplicate(acc, built) ==
    IF built.exc # "" THEN built
    ELSE IF \E i \in 1..Len(acc.value) : acc.value[i].name = built.value.name
    THEN Raise("ValueError", "name")
    ELSE Ok(Append(acc.value, built.value))

\* events.append(Event(...)), or the exception that building the Event raised
Extend(acc, built) ==
    IF built.exc # "" THEN built ELSE Ok(Append(acc.value, built.value))

\* one "for event_data in ..." loop from its i-th element on; acc holds the
\* events list, or the exception raised so far
RECURSIVE ParseEventList(_, _, _, _)
ParseEventList(events_data, i, acc, section) ==
    IF acc.exc # "" \/ i > Len(events_data) THEN acc
    ELSE ParseEventList(events_data, i + 1,
                        Extend(acc, BuildEvent(events_data[i], section)), section)

\* one key of a dict that holds a list of events, when the key is there
ParseSection(d, key, acc, section) ==
    IF key \in DOMAIN d THEN ParseEventList(d[key], 1, acc, section) ELSE acc

\* (mutation of TopLevelEvents: the events key is read whether or not the
\* document has client or server sections)
TopLevelEventsAll(data) ==
    ParseSection(data, "events",
        ParseSection(data, "server",
            ParseSection(data, "client", Ok(<<>>), SplitSection(CLIENT_TO_SERVER)),
            SplitSection(SERVER_TO_CLIENT)),
        UnifiedSection)

\* the split format, else the unified format
TopLevelEvents(data) ==
    IF "client" \in DOMAIN data \/ "server" \in DOMAIN data
    THEN ParseSection(data, "server",
            ParseSection(data, "client", Ok(<<>>), SplitSection(CLIENT_TO_SERVER)),
            SplitSection(SERVER_TO_CLIENT))
    ELSE ParseSection(data, "events", Ok(<<>>), UnifiedSection)

\* for feature_name, feature_content in features_data.items(), from the i-th on
RECURSIVE ParseFeatures(_, _, _)
ParseFeatures(features_data, i, acc) ==
    IF acc.exc # "" \/ i > Len(features_data.items) THEN acc
    ELSE ParseFeatures(features_data, i + 1,
            ParseSection(features_data.items[i].value, "server",
                ParseSection(features_data.items[i].value, "client", acc,
                    FeatureSection(features_data.items[i].key, CLIENT_TO_SERVER)),
                FeatureSection(features_data.items[i].key, SERVER_TO_CLIENT)))

\* return cls(name=data["name"], events=events, ...)
BuildProtocol(data, acc) ==
    IF acc.exc # "" THEN acc
    ELSE IF "name" \notin DOMAIN data THEN Raise("KeyError", "name")
    ELSE Ok(NewProtocol(data["name"], acc.value, DictGet(data, "version"),
                        DictGet(data, "description"),
                        DictGetOr(data, "types", OrderedDict(<<>>)),
                        DictGetOr(data, "features", OrderedDict(<<>>))))

\* Protocol.from_dict
from_dict(data) ==
    BuildProtocol(data,
        ParseFeatures(DictGetOr(data, "features", OrderedDict(<<>>)), 1, TopLevelEvents(data)))

----------------------------------------------------------------------------
(* Input documents of the parser: the parts a document is put together      *)
(* from.  An event or field definition is a dict (a function from its keys). *)

Joined == <<"j", "o", "i", "n", "e", "d">>

Leave == <<"l", "e", "a", "v", "e">>

Notice == <<"n", "o", "t", "i", "c", "e">>

Send == <<"s", "e", "n", "d">>

Sent == <<"s", "e", "n", "t">>

Online == <<"o", "n", "l", "i", "n", "e">>

Text == <<"t", "e", "x", "t">>

Msgs == <<"m", "s", "g", "s">>

ChatFeature == <<"C", "h", "a", "t">>

PresenceFeature == <<"P", "r", "e", "s", "e", "n", "c", "e">>

Demo == <<"d", "e", "m", "o">>

\* {name: join, fields: []}
EvJoin == ("name" :> Str(Join)) @@ ("fields" :> <<>>)

\* {name: joined}
EvJoined == ("name" :> Str(Joined))

\* {name: leave, fields: [{name: room}]}: a field without its type
EvLeaveNoFieldType == ("name" :> Str(Leave)) @@ ("fields" :> <<("name" :> Str(Lobby))>>)

\* {name: leave, fields: [{type: string}]}: a field without its name
EvLeaveNoFieldName == ("name" :> Str(Leave)) @@ ("fields" :> <<("type" :> Str(TString))>>)

EvNotice(direction) == ("name" :> Str(Notice)) @@ ("direction" :> direction)

\* {name: notice}: a unified event without its direction
EvNoticeNoDirection == ("name" :> Str(Notice))

\* {name: send, fields: [{name: text, type: string}]}
EvSend ==
    ("name" :> Str(Send))
        @@ ("fields" :> <<("name" :> Str(Text)) @@ ("type" :> Str(TString))>>)

\* {name: sent, handler_group: msgs}
EvSent == ("name" :> Str(Sent)) @@ ("handler_group" :> Str(Msgs))

EvOnline == ("name" :> Str(Online))

\* {name: chat.send}: a dotted name, as feature Chat gives its event send
EvChatSend == ("name" :> Str(ChatSend))

ClientParts ==
    {EmptyDict,
     "client" :> <<EvJoin>>,
     "client" :> <<EvJoin, EvJoin>>,
     "client" :> <<EvLeaveNoFieldType>>}

ServerParts == {EmptyDict, "server" :> <<EvJoined>>, "server" :> <<EvJoin>>}

EventsParts ==
    {EmptyDict,
     "events" :> <<EvNotice("bidirectional")>>,
     "events" :> <<EvNotice("server_to_client"), EvNotice("sideways")>>,
     "events" :> <<EvNoticeNoDirection>>,
     "events" :> <<EvChatSend @@ ("direction" :> "client_to_server")>>,
     "events" :> <<EvLeaveNoFieldName @@ ("direction" :> "client_to_server")>>}

FeaturesParts ==
    {EmptyDict,
     "features" :> OrderedDict(<<[key |-> ChatFeature, value |-> ("client" :> <<EvSend>>)]>>),
     "features" :> OrderedDict(
        <<[key |-> PresenceFeature, value |-> ("server" :> <<EvOnline>>)],
          [key |-> ChatFeature,
           value |-> ("server" :> <<EvSent>>) @@ ("client" :> <<EvSend>>)]>>)}

Documents ==
    {("name" :> Str(Demo)) @@ c @@ s @@ e @@ f :
        c \in ClientParts, s \in ServerParts, e \in EventsParts, f \in FeaturesParts}

----------------------------------------------------------------------------
(* A Protocol object in use: built by from_dict, then read, and open to     *)
(* add_event.                                                               *)

\* no from_dict call has been made
NoProtocol == [exc |-> "NotCalled", arg |-> "", value |-> <<>>]

\* the arguments given to add_event: a str, or a Direction member
AddedDirections == {"bidirectional", "sideways", BIDIRECTIONAL}

\* protocol = Protocol.from_dict(doc)
FromDict ==
    /\ protocol = NoProtocol
    /\ protocol' = from_dict(doc)
    /\ UNCHANGED <<doc, reads, type_call, filtered>>

\* protocol.add_event(name, direction): a str is converted by Direction(...),
\* which raises ValueError for a str that is no member's value; then
\* self.events.append(Event(...))
AddEvent(name, direction) ==
    /\ protocol.exc = ""
    /\ Len(protocol.value.events) < MaxEvents
    /\ protocol' =
          IF direction \in DirectionValues \cup {CLIENT_TO_SERVER, SERVER_TO_CLIENT, BIDIRECTIONAL}
          THEN [protocol EXCEPT !.value.events =
                   Append(@, NewEvent(name,
                                      IF direction \in DirectionValues
                                      THEN Direction(direction) ELSE direction,
                                      <<>>, PyNone, PyNone, PyNone, PyNone))]
          ELSE protocol
    /\ UNCHANGED <<doc, reads, type_call, filtered>>

\* a caller reads protocol.events
ReadEvents ==
    /\ protocol.exc = ""
    /\ Len(reads) < MaxReads
    /\ reads' = Append(reads, protocol.value.events)
    /\ UNCHANGED <<doc, protocol, type_call, filtered>>

\* Event.is_client_to_server
is_client_to_server(e) == e.direction \in {CLIENT_TO_SERVER, BIDIRECTIONAL}

\* (mutation of is_server_to_client: the direction compared with
\* SERVER_TO_CLIENT alone)
IsServerToClientOnly(e) == e.direction = SERVER_TO_CLIENT

\* Event.is_server_to_client
is_server_to_client(e) == e.direction \in {SERVER_TO_CLIENT, BIDIRECTIONAL}

\* [e for e in self.events if e.is_client_to_server()], from event i on
RECURSIVE ClientToServerFrom(_, _, _)
ClientToServerFrom(events, i, out) ==
    IF i > Len(events) THEN out
    ELSE ClientToServerFrom(events, i + 1,
                            IF is_client_to_server(events[i]) THEN Append(out, events[i])
                            ELSE out)

\* [e for e in self.events if e.is_server_to_client()], from event i on
RECURSIVE ServerToClientFrom(_, _, _)
ServerToClientFrom(events, i, out) ==
    IF i > Len(events) THEN out
    ELSE ServerToClientFrom(events, i + 1,
                            IF is_server_to_client(events[i]) THEN Append(out, events[i])
                            ELSE out)

\* Protocol.client_to_server_events
client_to_server_events(p) == ClientToServerFrom(p.events, 1, <<>>)

\* Protocol.server_to_client_events
server_to_client_events(p) == ServerToClientFrom(p.events, 1, <<>>)

\* neither filter has been called
NoFiltered == [called |-> FALSE, client_to_server |-> <<>>, server_to_client |-> <<>>]

\* a holder of the Protocol calls both filters (as the validate command does)
FilterEvents ==
    /\ protocol.exc = ""
    /\ filtered' = [called |-> TRUE,
                    client_to_server |-> client_to_server_events(protocol.value),
                    server_to_client |-> server_to_client_events(protocol.value)]
    /\ UNCHANGED <<doc, protocol, reads, type_call>>

----------------------------------------------------------------------------
(* Fields and custom-type tables given to Field.python_type                 *)

FieldTypes == {TString, TStringCapital, TInt, TColor, TListOfStr}

FieldDefaults == {PyNone, PyInt(<<"0">>), PyBool(FALSE), Str(<<>>), Str(Lobby)}

Fields ==
    {NewField(Str(Text), Str(ty), required, default, PyNone, PyNone) :
        ty \in FieldTypes, required \in BOOLEAN, default \in FieldDefaults}

Red == <<"r", "e", "d">>

CustomTypeTables ==
    {NoneDict,
     OrderedDict(<<>>),
     OrderedDict(<<[key |-> TColor, value |-> <<Red>>]>>),
     OrderedDict(<<[key |-> TString, value |-> <<Red>>], [key |-> TColor, value |-> <<Red>>]>>)}

NoTypeCall == [fld |-> NewField(PyNone, PyNone, TRUE, PyNone, PyNone, PyNone),
               custom_types |-> NoneDict, result |-> <<>>]

\* fld.python_type(custom_types) is called
PythonType(fld, custom_types) ==
    /\ type_call' = [fld |-> fld, custom_types |-> custom_types,
                    result |-> python_type(fld, custom_types)]
    /\ UNCHANGED <<doc, protocol, reads, filtered>>

----------------------------------------------------------------------------
(* Dispatcher.__init__.  message_type is typing.Union[...] of model classes,  *)
(* that union inside Annotated[..., Field(discriminator="type")], or one      *)
(* model class.  A model class is given by the default and the Literal        *)
(* annotation of its discriminator field.                                     *)

\* FieldInfo.default of a field declared without a default
PydanticUndefined == <<"PydanticUndefined">>

\* FieldInfo.default of a field declared with default None
NoneDefault == <<"None">>

\* class PingMessage(BaseModel): type: Literal["ping"] = "ping", and so on
MemberModels ==
    {[name |-> "PingMessage", default |-> Ping, literal |-> <<Ping>>],
     [name |-> "PingRequest", default |-> Ping, literal |-> <<Ping>>],
     [name |-> "JoinMessage", default |-> Join, literal |-> <<Join>>],
     [name |-> "PongMessage", default |-> PydanticUndefined, literal |-> <<Pong>>],
     [name |-> "PongReply", default |-> NoneDefault, literal |-> <<Pong>>]}

\* the message types given: up to MaxMembers distinct member classes; typing.Union
\* of one class is that class, and a discriminated union has two members or more
MessageTypes ==
    UNION {{[shape |-> IF n = 1 THEN "Model" ELSE s, members |-> m] :
              s \in {"Union", "Annotated"},
              m \in {q \in [1..n -> MemberModels] : \A i, j \in 1..n : i # j => q[i] # q[j]}} :
              n \in 1..MaxMembers}

\* TypeAdapter(message_type): building the schema of a discriminated union
\* raises TypeError when a discriminator value maps to two choices; a plain
\* union and a single model have no such step
TypeAdapter(message_type) ==
    IF /\ message_type.shape = "Annotated"
       /\ \E i, j \in 1..Len(message_type.members) :
             i < j /\ message_type.members[i].literal[1] = message_type.members[j].literal[1]
    THEN Raise("TypeError", "discriminator")
    ELSE Ok(message_type)

\* type_map[key] = member
TypeMapSet(type_map, key, member) ==
    [k \in DOMAIN type_map \cup {key} |-> IF k = key THEN member.name ELSE type_map[k]]

\* the body of the loop of _build_type_map for one member
TypeMapWith(type_map, member) ==
    IF member.default # NoneDefault THEN TypeMapSet(type_map, member.default, member)
    ELSE IF Len(member.literal) > 0 THEN TypeMapSet(type_map, member.literal[1], member)
    ELSE type_map

RECURSIVE BuildTypeMapFrom(_, _, _)
\* for member in members, from the i-th on
BuildTypeMapFrom(members, i, type_map) ==
    IF i > Len(members) THEN type_map
    ELSE BuildTypeMapFrom(members, i + 1, TypeMapWith(type_map, members[i]))

\* Dispatcher._build_type_map: the three shapes all give the member classes
BuildTypeMap(message_type) == BuildTypeMapFrom(message_type.members, 1, <<>>)

NoConstructed == [called |-> FALSE, message_type |-> <<>>, exc |-> "", type_map |-> <<>>]

\* Dispatcher.__init__ after TypeAdapter(message_type) gave adapter
InitDispatcher(message_type, adapter) ==
    IF adapter.exc # ""
    THEN [called |-> TRUE, message_type |-> message_type, exc |-> adapter.exc, type_map |-> <<>>]
    ELSE [called |-> TRUE, message_type |-> message_type, exc |-> "",
          type_map |-> BuildTypeMap(message_type)]

\* Dispatcher(message_type, handler)
ConstructDispatcher(message_type) ==
    /\ constructed' = InitDispatcher(message_type, TypeAdapter(message_type))
    /\ UNCHANGED created
    /\ UNCHANGED nonFactoryVars

----------------------------------------------------------------------------
(* create_handler_class.  handlers is an ordered dict: the sequence of its   *)
(* items [key, value], the values being function objects.  A function        *)
(* object carries at most one _wsprot_event_handler attribute, kept in attr. *)

\* the function objects given as handlers
GivenFns == {"f", "g"}

ChatSendUnderscore == <<"c", "h", "a", "t", "_", "s", "e", "n", "d">>

\* the event kinds given as keys
GivenKinds == {Ping, Pong, ChatSend, ChatSendUnderscore}

\* ch.replace('.', '_').replace('-', '_')
ReplaceChar(ch) == IF ch \in {".", "-"} THEN "_" ELSE ch

\* f"_handle_{event_type.replace('.', '_').replace('-', '_')}"
HandlerName(event_type) ==
    <<"_", "h", "a", "n", "d", "l", "e", "_">>
        \o [i \in 1..Len(event_type) |-> ReplaceChar(event_type[i])]

\* namespace[handler_name] = handler: a new key goes last, a key already there
\* keeps its place and takes the new value
NamespaceSet(namespace, handler_name, handler) ==
    IF \E i \in 1..Len(namespace) : namespace[i].name = handler_name
    THEN [i \in 1..Len(namespace) |->
             IF namespace[i].name = handler_name
             THEN [name |-> handler_name, fn |-> handler] ELSE namespace[i]]
    ELSE Append(namespace, [name |-> handler_name, fn |-> handler])

\* the loop of create_handler_class, from item i of handlers on:
\* setattr(handler, _EVENT_HANDLER_ATTR, event_type), then the namespace entry
RECURSIVE MarkHandlers(_, _, _, _)
MarkHandlers(items, i, attr, namespace) ==
    IF i > Len(items) THEN [attr |-> attr, namespace |-> namespace]
    ELSE MarkHandlers(items, i + 1,
                      [attr EXCEPT ![items[i].value] = items[i].key],
                      NamespaceSet(namespace, HandlerName(items[i].key), items[i].value))

\* the inner loop of from_class over the namespace of the created class: the
\* members that carry the attribute are registered under the kind it holds
RECURSIVE ScanNamespace(_, _, _, _)
ScanNamespace(handlers, items, attr, i) ==
    IF i > Len(items) THEN handlers
    ELSE ScanNamespace(IF attr[items[i].fn] # NoEvent
                       THEN RegistryRegister(handlers, attr[items[i].fn], items[i].fn)
                       ELSE handlers,
                       items, attr, i + 1)

\* EventRegistry.from_class of type(name, (base,), namespace): the __mro__ is
\* the new class followed by base's, so reversed it visits base's chain first
FromCreatedClass(base, namespace, attr) == ScanNamespace(FromClass(base), namespace, attr, 1)

\* no class has been created, and no given function is marked
NoCreated ==
    [called |-> FALSE, handlers |-> <<>>, base |-> "HandlerBase",
     attr |-> [fn \in GivenFns |-> NoEvent], namespace |-> <<>>, registry |-> EmptyRegistry]

IdleFactory == created = NoCreated /\ constructed = NoConstructed

\* the class create_handler_class(name, handlers, base) returned, given the
\* result m of its loop, and the registry that class resolves to
CreatedClass(handlers, base, m) ==
    [called |-> TRUE, handlers |-> handlers, base |-> base,
     attr |-> m.attr, namespace |-> m.namespace,
     registry |-> FromCreatedClass(base, m.namespace, m.attr)]

\* create_handler_class(name, handlers, base), and get_registry on the result
CreateHandlerClass(handlers, base) ==
    /\ created' = CreatedClass(handlers, base, MarkHandlers(handlers, 1, created.attr, <<>>))
    /\ UNCHANGED constructed
    /\ UNCHANGED nonFactoryVars

\* the mappings given as handlers: up to MaxHandlers items with distinct keys
HandlerItems == {[key |-> k, value |-> fn] : k \in GivenKinds, fn \in GivenFns}

HandlerMappings ==
    UNION {{m \in [1..n -> HandlerItems] : \A i, j \in 1..n : i # j => m[i].key # m[j].key} :
              n \in 0..MaxHandlers}

\* the classes given as base
CreatedBases == {"HandlerBase", "Base"}

----------------------------------------------------------------------------
(* The demo service (server/main.py).  A path is the sequence of its          *)
(* components, each a string of characters; an absolute path starts at the    *)
(* root.  A handler is an "async def" without an await, so it runs as one     *)
(* step; the FileResponse it returns is read from the disk when it is sent.   *)

\* session_id[:8]
ZipPrefixLen == 8

\* str(uuid.uuid4()), shortened after the first group: two ids with the same
\* first group, and an id no session has
SessionA1 == <<"a", "a", "a", "a", "a", "a", "a", "a", "-", "1">>

SessionA2 == <<"a", "a", "a", "a", "a", "a", "a", "a", "-", "2">>

UnknownSession == <<"b", "b", "b", "b", "b", "b", "b", "b", "-", "1">>

GeneratedIds == {SessionA1, SessionA2}

RequestIds == GeneratedIds \cup {UnknownSession}

\* tempfile.gettempdir()
TempDir == <<<<"t", "m", "p">>>>

\* tempfile.mkdtemp(prefix="wsprot_gen_"): the suffix is one per directory
MkdTemp(session_id) == TempDir \o <<<<"w", "s", "p", "r", "o", "t", "_", "g", "e", "n", "_">> \o <<session_id[Len(session_id)]>>>>

GeneratedDir == <<"g", "e", "n", "e", "r", "a", "t", "e", "d">>

GeneratedDir2 == <<"g", "e", "n", "e", "r", "a", "t", "e", "d", "2">>

ProtocolYaml == <<"p", "r", "o", "t", "o", "c", "o", "l", ".", "y", "a", "m", "l">>

ServerDir == <<"s", "e", "r", "v", "e", "r">>

ClientDir == <<"c", "l", "i", "e", "n", "t">>

DocsDir == <<"d", "o", "c", "s">>

ModelsPy == <<"m", "o", "d", "e", "l", "s", ".", "p", "y">>

DotDot == <<".", ".">>

\* output_dir = Path(tmpdir) / "generated"
OutputDir(session_id) == MkdTemp(session_id) \o <<GeneratedDir>>

\* the files of a session: protocol.yaml, and what write_all emitted under the
\* options given; a file's content names the session and the file
WrittenFiles(session_id, options) ==
    {[path |-> OutputDir(session_id) \o rel, content |-> <<session_id, rel>>] :
        rel \in {<<ProtocolYaml>>}
                  \cup (IF options.include_server THEN {<<ServerDir, ModelsPy>>} ELSE {})
                  \cup (IF options.include_client THEN {<<ClientDir, ModelsPy>>} ELSE {})}

GenerateOptions == [include_server : BOOLEAN, include_client : BOOLEAN]

NoContent == <<>>

NoPath == [absolute |-> FALSE, segments |-> <<>>]

NoResponse ==
    [endpoint |-> "none", session_id |-> <<>>, path |-> NoPath, status |-> 0,
     content |-> NoContent]

IdleDownload ==
    [pc |-> "idle", session_id |-> <<>>, targets |-> <<>>, zip_filename |-> <<>>,
     status |-> 0, body |-> {}]

Downloads == 1..MaxDownloads

IdleService ==
    /\ sessions = <<>>
    /\ disk = {}
    /\ zips = <<>>
    /\ downloads = [r \in Downloads |-> IdleDownload]
    /\ response = NoResponse

\* generate_code, the document and the generation having succeeded
GenerateCode(session_id, options) ==
    /\ session_id \notin DOMAIN sessions
    /\ Cardinality(DOMAIN sessions) < MaxSessions
    /\ disk' = disk \cup WrittenFiles(session_id, options)
    /\ sessions' = (session_id :> OutputDir(session_id)) @@ sessions
    /\ response' = [NoResponse EXCEPT !.endpoint = "generate", !.session_id = session_id,
                                      !.status = 200]
    /\ UNCHANGED <<zips, downloads>>

\* generate_code, from_yaml having raised: except Exception gives status 500
GenerateCodeFails ==
    /\ response' = [NoResponse EXCEPT !.endpoint = "generate", !.status = 500]
    /\ UNCHANGED <<sessions, disk, zips, downloads>>

RECURSIVE NormPathFrom(_, _, _)
\* os.path.normpath of an absolute path: ".." drops the component before it,
\* and at the root is dropped itself
NormPathFrom(components, i, out) ==
    IF i > Len(components) THEN out
    ELSE NormPathFrom(components, i + 1,
             IF components[i] # DotDot THEN Append(out, components[i])
             ELSE IF out = <<>> THEN out ELSE SubSeq(out, 1, Len(out) - 1))

\* os.path.abspath(os.path.join(base_path, path)): an absolute path replaces
\* base_path
AbsJoin(base_path, path) ==
    NormPathFrom(IF path.absolute THEN path.segments ELSE base_path \o path.segments, 1, <<>>)

RECURSIVE PathStr(_, _)
\* the str of an absolute path, from its i-th component on
PathStr(components, i) ==
    IF i > Len(components) THEN <<>>
    ELSE <<"/">> \o components[i] \o PathStr(components, i + 1)

\* os.path.isfile and os.path.exists, on the service's directories
IsFile(p) == \E f \in disk : f.path = p

IsDir(p) == \E f \in disk : Len(p) < Len(f.path) /\ SubSeq(f.path, 1, Len(p)) = p

Exists(p) == IsFile(p) \/ IsDir(p)

ReadFile(p) == (CHOOSE f \in disk : f.path = p).content

\* the body of get_file_content for a known session, safe_path computed
FileContentAt(base_path, safe_path) ==
    IF ~StartsWith(PathStr(safe_path, 1), PathStr(base_path, 1))
    THEN [status |-> 403, content |-> NoContent]
    ELSE IF ~Exists(safe_path) \/ ~IsFile(safe_path)
    THEN [status |-> 404, content |-> NoContent]
    ELSE [status |-> 200, content |-> ReadFile(safe_path)]

FileContent(session_id, path) ==
    IF session_id \notin DOMAIN sessions
    THEN [status |-> 404, content |-> NoContent]
    ELSE FileContentAt(sessions[session_id], AbsJoin(sessions[session_id], path))

\* get_file_content
GetFileContent(session_id, path) ==
    /\ response' = [endpoint |-> "file", session_id |-> session_id, path |-> path,
                    status |-> FileContent(session_id, path).status,
                    content |-> FileContent(session_id, path).content]
    /\ UNCHANGED <<sessions, disk, zips, downloads>>

\* the entries zipf.write adds for one target
TargetEntries(base_path, target) ==
    {[arcname |-> SubSeq(f.path, Len(base_path) + 1, Len(f.path)), content |-> f.content] :
        f \in {g \in disk :
                 /\ Len(base_path) < Len(g.path)
                 /\ SubSeq(g.path, 1, Len(base_path) + 1) = base_path \o <<target>>}}

\* the archive the loop over target_list writes
ZipEntries(base_path, target_list) ==
    UNION {TargetEntries(base_path, target_list[i]) : i \in 1..Len(target_list)}

\* f"wsprot_{session_id[:8]}.zip"
ZipFilename(session_id) ==
    <<"w", "s", "p", "r", "o", "t", "_">> \o SubSeq(session_id, 1, ZipPrefixLen) \o <<".", "z", "i", "p">>

\* download_zip up to its return: unknown sessions get 404, otherwise the
\* archive is written over whatever file has its name
DownloadZip(r, session_id, target_list) ==
    /\ downloads[r].pc = "idle"
    /\ \A o \in Downloads : o < r => downloads[o].pc # "idle"
    /\ IF session_id \notin DOMAIN sessions
       THEN /\ downloads' = [downloads EXCEPT ![r] =
                   [IdleDownload EXCEPT !.pc = "done", !.session_id = session_id,
                                        !.targets = target_list, !.status = 404]]
            /\ UNCHANGED zips
       ELSE /\ zips' = (ZipFilename(session_id) :> ZipEntries(sessions[session_id], target_list))
                          @@ zips
            /\ downloads' = [downloads EXCEPT ![r] =
                   [IdleDownload EXCEPT !.pc = "sending", !.session_id = session_id,
                                        !.targets = target_list,
                                        !.zip_filename = ZipFilename(session_id)]]
    /\ UNCHANGED <<sessions, disk, response>>

\* the FileResponse of a download is sent: the file at zip_path is read now
DownloadSend(r) ==
    /\ downloads[r].pc = "sending"
    /\ downloads' = [downloads EXCEPT ![r].pc = "done", ![r].status = 200,
                                      ![r].body = zips[downloads[r].zip_filename]]
    /\ UNCHANGED <<sessions, disk, zips, response>>

\* the paths given to the file-content endpoint
PathSegments == {DotDot, GeneratedDir2, ServerDir, ModelsPy, ProtocolYaml}

RequestPaths ==
    [absolute : BOOLEAN, segments : UNION {[1..n -> PathSegments] : n \in 0..MaxSegments}]

\* the targets given to the download endpoint, split at the commas
TargetNames == {ServerDir, ClientDir, DocsDir}

TargetLists ==
    UNION {{t \in [1..n -> TargetNames] : \A i, j \in 1..n : i # j => t[i] # t[j]} :
              n \in 1..MaxTargets}

----------------------------------------------------------------------------
(* Specifications *)

InitClasses ==
    /\ cls_registry = [c \in Classes |-> IF c = "HandlerBase" THEN SlotNone ELSE SlotAbsent]
    /\ heap = <<>>
    /\ thr = [t \in Threads |-> IdleThread]
    /\ calls = [c \in Calls |-> IdleCall]

\* no document has been parsed and no type resolved
IdleSchema ==
    /\ doc = EmptyDict
    /\ protocol = NoProtocol
    /\ reads = <<>>
    /\ type_call = NoTypeCall
    /\ filtered = NoFiltered

\* the racing callers of get_registry; no dispatcher is in use
InitRegistry ==
    /\ InitClasses
    /\ disp = NewMultiDispatcher
    /\ IdleSchema
    /\ IdleFactory
    /\ IdleService

NextRegistry ==
    \/ \E t \in Threads, cls \in Classes : GetRegistryEnter(t, cls) /\ UNCHANGED nonDispatchVars
    \/ \E t \in Threads : GetRegistryBuild(t) /\ UNCHANGED nonDispatchVars
    \/ \E t \in Threads : GetRegistryReturn(t) /\ UNCHANGED nonDispatchVars

SpecRegistry == InitRegistry /\ [][NextRegistry]_vars

\* the handler instances and callbacks a Dispatcher is constructed with
DispatcherHandlers == {"Base", "Derived", "Shadow"}

OnErrorCallbacks == {"None", "sync", "async"}

\* a caller that makes one call at a time, each after the one before it has
\* ended: it uses the first slot, the others stay idle
Sequential(c) == \A o \in Calls : o = c \/ (c < o /\ calls[o].pc = "idle")

\* one dispatcher is constructed, of either class, and a sequential caller
\* makes calls on it
Init ==
    /\ InitClasses
    /\ \/ \E h \in DispatcherHandlers, cb \in OnErrorCallbacks : disp = NewDispatcher(h, cb)
       \/ disp = NewMultiDispatcher
    /\ IdleSchema
    /\ IdleFactory
    /\ IdleService

Next ==
    \/ \E c \in Calls, data \in Inputs :
          Sequential(c) /\ Dispatch(c, data) /\ UNCHANGED nonDispatchVars
    \/ \E c \in Calls, data \in Inputs :
          Sequential(c) /\ DispatchSync(c, data) /\ UNCHANGED nonDispatchVars
    \/ \E c \in Calls : HandlerCompletes(c) /\ UNCHANGED nonDispatchVars
    \/ \E c \in Calls : OnErrorCompletes(c) /\ UNCHANGED nonDispatchVars
    \/ \E h \in MultiHandlers, p \in Prefixes, m \in Matchers :
          Register(h, p, m) /\ UNCHANGED nonDispatchVars
    \/ \E h \in MultiHandlers : SetDefault(h) /\ UNCHANGED nonDispatchVars
    \/ \E c \in Calls, data \in Inputs :
          Sequential(c) /\ MultiDispatch(c, data) /\ UNCHANGED nonDispatchVars

Spec == Init /\ [][Next]_vars

\* Several dispatch calls in flight on one Dispatcher: tasks of one event loop,
\* each running from one await to the next.  A handler coroutine either
\* completes or never does; the loop resumes a task whose awaited coroutine
\* has completed.
ConcurrentHandlers == {"Shadow"}

ConcurrentCallbacks == {"None", "async"}

InitConcurrent ==
    /\ InitClasses
    /\ \E h \in ConcurrentHandlers, cb \in ConcurrentCallbacks : disp = NewDispatcher(h, cb)
    /\ IdleSchema
    /\ IdleFactory
    /\ IdleService

NextConcurrent ==
    \/ \E c \in Calls, data \in Inputs : Dispatch(c, data) /\ UNCHANGED nonDispatchVars
    \/ \E c \in Calls : HandlerCompletes(c) /\ UNCHANGED nonDispatchVars
    \/ \E c \in Calls : HandlerHangs(c) /\ UNCHANGED nonDispatchVars
    \/ \E c \in Calls : OnErrorCompletes(c) /\ UNCHANGED nonDispatchVars

\* the event loop resumes every task whose awaited coroutine has completed
SpecConcurrent ==
    /\ InitConcurrent
    /\ [][NextConcurrent]_vars
    /\ \A c \in Calls :
          /\ WF_vars(HandlerCompletes(c) /\ UNCHANGED nonDispatchVars)
          /\ WF_vars(OnErrorCompletes(c) /\ UNCHANGED nonDispatchVars)

\* Both entry points of one Dispatcher, used on a handler whose methods are all
\* plain "def": one caller makes dispatch calls, the others dispatch_sync calls,
\* in any order.  No handler coroutine exists to be awaited; an asynchronous
\* error callback is.
SyncHandlers == {"Plain"}

InitSync ==
    /\ cls_registry = [c \in Classes \cup SyncHandlers |->
                          IF c = "HandlerBase" THEN SlotNone ELSE SlotAbsent]
    /\ heap = <<>>
    /\ thr = [t \in Threads |-> IdleThread]
    /\ calls = [c \in Calls |-> IdleCall]
    /\ \E h \in SyncHandlers, cb \in OnErrorCallbacks : disp = NewDispatcher(h, cb)
    /\ IdleSchema
    /\ IdleFactory
    /\ IdleService

NextSync ==
    \/ \E data \in Inputs : Dispatch(1, data) /\ UNCHANGED nonDispatchVars
    \/ \E c \in Calls \ {1}, data \in Inputs : DispatchSync(c, data) /\ UNCHANGED nonDispatchVars
    \/ \E c \in Calls : OnErrorCompletes(c) /\ UNCHANGED nonDispatchVars

SpecSync == InitSync /\ [][NextSync]_vars

\* handler classes are made by create_handler_class and resolved
InitFactory ==
    /\ InitClasses
    /\ disp = NewMultiDispatcher
    /\ IdleSchema
    /\ IdleFactory
    /\ IdleService

NextFactory ==
    \E handlers \in HandlerMappings, base \in CreatedBases : CreateHandlerClass(handlers, base)

SpecFactory == InitFactory /\ [][NextFactory]_vars

\* Dispatchers are constructed over message types
InitConstruct ==
    /\ InitClasses
    /\ disp = NewMultiDispatcher
    /\ IdleSchema
    /\ IdleFactory
    /\ IdleService

NextConstruct == \E message_type \in MessageTypes : ConstructDispatcher(message_type)

SpecConstruct == InitConstruct /\ [][NextConstruct]_vars

\* the demo service: sessions are generated and their files requested
InitService ==
    /\ InitClasses
    /\ disp = NewMultiDispatcher
    /\ IdleSchema
    /\ IdleFactory
    /\ IdleService

NextFiles ==
    \/ \E session_id \in GeneratedIds, options \in GenerateOptions :
          GenerateCode(session_id, options) /\ UNCHANGED nonServiceVars
    \/ GenerateCodeFails /\ UNCHANGED nonServiceVars
    \/ \E session_id \in RequestIds, path \in RequestPaths :
          GetFileContent(session_id, path) /\ UNCHANGED nonServiceVars

SpecFiles == InitService /\ [][NextFiles]_vars

\* the demo service: sessions are generated and their archives downloaded
NextDownloads ==
    \/ \E session_id \in GeneratedIds, options \in GenerateOptions :
          GenerateCode(session_id, options) /\ UNCHANGED nonServiceVars
    \/ GenerateCodeFails /\ UNCHANGED nonServiceVars
    \/ \E r \in Downloads, session_id \in RequestIds, target_list \in TargetLists :
          DownloadZip(r, session_id, target_list) /\ UNCHANGED nonServiceVars
    \/ \E r \in Downloads : DownloadSend(r) /\ UNCHANGED nonServiceVars

SpecDownloads == InitService /\ [][NextDownloads]_vars

\* the parser: a document is given to Protocol.from_dict, and the Protocol it
\* built is read and extended by its holders
InitSchema ==
    /\ InitClasses
    /\ disp = NewMultiDispatcher
    /\ doc \in Documents
    /\ protocol = NoProtocol
    /\ reads = <<>>
    /\ type_call = NoTypeCall
    /\ filtered = NoFiltered
    /\ IdleFactory
    /\ IdleService

NextSchema ==
    \/ FromDict /\ UNCHANGED nonSchemaVars
    \/ \E d \in AddedDirections : AddEvent(Str(Ping), d) /\ UNCHANGED nonSchemaVars
    \/ ReadEvents /\ UNCHANGED nonSchemaVars
    \/ FilterEvents /\ UNCHANGED nonSchemaVars

SpecSchema == InitSchema /\ [][NextSchema]_vars

\* the type mapper: Field.python_type applied to fields and custom-type tables
InitTypeMapper ==
    /\ InitClasses
    /\ disp = NewMultiDispatcher
    /\ IdleSchema
    /\ IdleFactory
    /\ IdleService

NextTypeMapper ==
    \E fld \in Fields, custom_types \in CustomTypeTables :
        PythonType(fld, custom_types) /\ UNCHANGED nonSchemaVars

SpecTypeMapper == InitTypeMapper /\ [][NextTypeMapper]_vars

----------------------------------------------------------------------------
(* Claims about the handler registry, checked under SpecRegistry *)

Objs == 1..Len(heap)

\* the positions of class c's namespace that declare event kind k
DeclaredAt(c, k) ==
    {i \in 1..Len(ClassVars(c)) :
        ClassVars(c)[i].fn \in MarkedFns /\ on_event(ClassVars(c)[i].fn) = k}

\* the kinds declared anywhere in the inheritance chain of cls
DeclaredKinds(cls) ==
    {k \in Kinds : \E j \in 1..Len(ClassMro(cls)) : DeclaredAt(ClassMro(cls)[j], k) # {}}

\* the declaration of k by the most derived class of the chain that declares it
MostDerivedDeclaration(cls, k) ==
    LET mro == ClassMro(cls)
        j == CHOOSE a \in 1..Len(mro) :
                /\ DeclaredAt(mro[a], k) # {}
                /\ \A b \in 1..(a - 1) : DeclaredAt(mro[b], k) = {}
        at == DeclaredAt(mro[j], k)
        last == CHOOSE a \in at : \A b \in at : b <= a
    IN ClassVars(mro[j])[last].fn

\* for each class, its declared kinds with the most derived declaration of each
ResolvedDeclarations ==
    [c \in Classes |-> [k \in DeclaredKinds(c) |-> MostDerivedDeclaration(c, k)]]

\* C7: every registry built for a class maps each kind declared in the class's
\* inheritance chain to the declaration of the most derived class declaring it;
\* Derived (ping -> B, pong -> C) over Base (ping -> A) resolves to ping -> B,
\* pong -> C, and Base's own registry keeps ping -> A and has no pong.
C7_SubclassWins ==
    \A o \in Objs :
        LET cls == heap[o].cls
            h == heap[o].handlers
        IN /\ h = ResolvedDeclarations[cls]
           /\ cls = "Derived" =>
                 /\ h[Ping] = "Derived.on_ping"
                 /\ h[Pong] = "Derived.on_pong"
                 /\ h[Join] = "Base.on_join"
           /\ cls = "Base" => (h[Ping] = "Base.on_ping" /\ Pong \notin DOMAIN h)

C7_Witness ==
    /\ \E o \in Objs : heap[o].cls = "Derived"
    /\ \E o \in Objs : heap[o].cls = "Base"

\* for each class, the registry that from_class builds from the class's own chain
BuiltFromOwnChain == [c \in Classes |-> FromClass(c)]

\* C8: whatever the order of first use, the registry cached on a class was built
\* for that class from its own chain, no two classes cache the same object, and
\* a call on a class returns an object built for that class.
C8_PerClassCache ==
    /\ \A c \in Classes :
          (cls_registry[c].present /\ cls_registry[c].obj # 0) =>
             /\ heap[cls_registry[c].obj].cls = c
             /\ heap[cls_registry[c].obj].handlers = BuiltFromOwnChain[c]
    /\ \A c, d \in Classes :
          (c # d /\ cls_registry[c].obj # 0) => cls_registry[c].obj # cls_registry[d].obj
    /\ \A t \in Threads :
          thr[t].pc = "done" =>
             /\ thr[t].ret # 0
             /\ heap[thr[t].ret].cls = thr[t].cls

C8_Witness ==
    /\ cls_registry["Base"].obj # 0
    /\ cls_registry["Derived"].obj # 0
    /\ \E t \in Threads : thr[t].pc = "done" /\ thr[t].cls = "Shadow"

\* C9: a call that finds the class's registry cached does not build (it goes
\* straight to the return and returns a cached object), and all registries
\* built or obtained for one class, also by racing first callers, map the same
\* kinds to the same methods.
C9_BuildOnceConverge ==
    /\ [](\A o, q \in Objs : heap[o].cls = heap[q].cls => heap[o].handlers = heap[q].handlers)
    /\ [](\A t, u \in Threads :
            (thr[t].pc = "done" /\ thr[u].pc = "done" /\ thr[t].cls = thr[u].cls) =>
               heap[thr[t].ret].handlers = heap[thr[u].ret].handlers)
    /\ [][\A t \in Threads :
            (thr[t].pc \in {"idle", "done"} /\ thr'[t].pc \notin {"idle", "done"}
               /\ cls_registry[thr'[t].cls].present /\ cls_registry[thr'[t].cls].obj # 0) =>
                  (thr'[t].pc = "return" /\ heap' = heap /\ cls_registry' = cls_registry)]_vars
    /\ [][\A t \in Threads :
            (thr[t].pc = "return" /\ thr'[t].pc = "done") =>
               thr'[t].ret = cls_registry[thr[t].cls].obj]_vars

\* two racing first callers have each built a registry for the same class
C9_Witness ==
    \E o, q \in Objs : o # q /\ heap[o].cls = heap[q].cls
       /\ \E t \in Threads : thr[t].pc = "done" /\ thr[t].cls = heap[o].cls

----------------------------------------------------------------------------
(* Claims about the dispatchers, checked under Spec.  What a claim expects  *)
(* is stated from the input and the class definitions, not from the         *)
(* operators that model the dispatchers.                                    *)

\* the input is, or decodes to, a dict
DecodesToDict(data) == data.enc \in {"json", "obj"} /\ data.val.t = "dict"

\* the input is text or bytes that cannot be decoded as a structured value
Undecodable(data) == data.form \in {"str", "bytes"} /\ data.enc \in {"garbage", "badutf8"}

\* the dict carries an event kind (a str) under the discriminator
HasKind(data) ==
    /\ DecodesToDict(data)
    /\ "type" \in DOMAIN data.val.d
    /\ data.val.d["type"].t = "str"

KindOf(data) == data.val.d["type"].v

\* the dict conforms to the union: a member's kind, and that member's fields
Conforms(data) ==
    /\ HasKind(data)
    /\ KindOf(data) \in UnionKinds
    /\ KindOf(data) = Join =>
          ("room" \in DOMAIN data.val.d /\ data.val.d["room"].t = "str")

\* the validated message: the member's model with its declared fields only
ValidatedMessage(data) ==
    [model |-> ModelClass(KindOf(data)),
     fields |-> IF KindOf(data) = Join
                THEN [type |-> data.val.d["type"], room |-> data.val.d["room"]]
                ELSE [type |-> data.val.d["type"]]]

\* the method registered for the kind in the chain of cls, bound to its instance
RegisteredMethod(cls, kind) == [fn |-> MostDerivedDeclaration(cls, kind), self |-> cls]

Ended(c) == calls[c].pc = "done"

\* C1: Dispatcher.dispatch of an input that validates, with a registration for
\* its kind on the bound handler: the registered method is invoked exactly once
\* with the validated message, nothing else is invoked, and dispatch returns
\* the value that method returned.
C1_DispatchInvokesRegistered ==
    \A c \in Calls :
        (/\ calls[c].entry = "dispatch"
         /\ Conforms(calls[c].data)
         /\ KindOf(calls[c].data) \in DeclaredKinds(disp.handler)) =>
            LET method == RegisteredMethod(disp.handler, KindOf(calls[c].data))
                message == ValidatedMessage(calls[c].data)
            IN /\ calls[c].invoked = <<[method |-> method, message |-> message]>>
               /\ calls[c].on_error_calls = <<>>
               /\ Ended(c) => calls[c].outcome = Returned(HandlerValue(method, message))

\* the text {"type": "join", "room": "lobby"} reached Base.on_join, awaited
C1_Witness ==
    \E c \in Calls :
        /\ Ended(c) /\ calls[c].entry = "dispatch" /\ calls[c].data.form = "str"
        /\ calls[c].outcome.kind = "return"
        /\ calls[c].outcome.value.method.fn = "Base.on_join"
        /\ calls[c].outcome.value.message.fields["room"] = Str(Lobby)

\* C2: a call of any entry point that ends in (or is about to re-raise) an error
\* of the DispatchError family has invoked no handler method.
C2_ErrorsInvokeNothing ==
    \A c \in Calls :
        (\/ calls[c].outcome.exc \in DispatchErrors
         \/ calls[c].pending.exc \in DispatchErrors) => calls[c].invoked = <<>>

\* {"type": "ghost"} given to Dispatcher.dispatch ended in ValidationError_
C2_Witness ==
    \E c \in Calls :
        /\ Ended(c) /\ calls[c].entry = "dispatch"
        /\ HasKind(calls[c].data) /\ KindOf(calls[c].data) = Ghost
        /\ calls[c].outcome.exc = "ValidationError_"
        /\ calls[c].invoked = <<>>

\* C3 (as claimed): every str or bytes input that cannot be decoded ends the
\* call in ParseError.
C3_UndecodableIsParseError ==
    \A c \in Calls :
        (Ended(c) /\ Undecodable(calls[c].data)) =>
            (calls[c].outcome.kind = "raise" /\ calls[c].outcome.exc = "ParseError")

\* C4 (as claimed): in both dispatchers a dict whose kind is no member of the
\* union ends the call in UnknownEventError or ValidationError_, never in
\* NoHandlerError.
C4_UnknownKindNotNoHandler ==
    \A c \in Calls :
        (Ended(c) /\ HasKind(calls[c].data) /\ KindOf(calls[c].data) \notin UnionKinds) =>
            calls[c].outcome.exc \in {"UnknownEventError", "ValidationError_"}

\* C5: Dispatcher.dispatch and dispatch_sync of an input that validates, when no
\* class in the bound handler's chain registers its kind, raise NoHandlerError
\* carrying the kind, and invoke nothing.
C5_NoHandlerError ==
    \A c \in Calls :
        (/\ calls[c].entry \in {"dispatch", "dispatch_sync"}
         /\ Conforms(calls[c].data)
         /\ KindOf(calls[c].data) \notin DeclaredKinds(disp.handler)) =>
            /\ calls[c].invoked = <<>>
            /\ (IF Ended(c) THEN calls[c].outcome ELSE calls[c].pending)
                  = Raised("NoHandlerError", Str(KindOf(calls[c].data)))

\* dispatch_sync of {"type": "chat.send"} on a handler without that kind
C5_Witness ==
    \E c \in Calls :
        /\ Ended(c) /\ calls[c].entry = "dispatch_sync"
        /\ calls[c].outcome = Raised("NoHandlerError", Str(ChatSend))

\* C6 (as claimed): with an error callback configured, a call of dispatch or
\* dispatch_sync that ends in a DispatchError has delivered it to the callback
\* exactly once, and the callback has completed.
C6_CallbackReceivesEveryError ==
    \A c \in Calls :
        (/\ Ended(c) /\ disp.kind = "Dispatcher" /\ disp.on_error # "None"
         /\ calls[c].outcome.kind = "raise"
         /\ calls[c].outcome.exc \in DispatchErrors) =>
            calls[c].on_error_calls = <<[exc |-> calls[c].outcome.exc, completed |-> TRUE]>>

\* p is a prefix of s
IsPrefix(p, s) == \E n \in 0..Len(s) : SubSeq(s, 1, n) = p

\* the registered pair predicates: "starts with p", or the matcher that accepts
\* every kind
PredicateHolds(matcher, kind) == matcher.kind = "custom" \/ IsPrefix(matcher.p, kind)

\* the pairs of d that qualify for a kind, and the handler resolution is to give
QualifyingPairs(d, kind) ==
    {i \in 1..Len(d.handlers) :
        /\ PredicateHolds(d.handlers[i].matcher, kind)
        /\ kind \in DeclaredKinds(d.handlers[i].handler)}

Resolved(d, kind) ==
    IF QualifyingPairs(d, kind) # {}
    THEN d.handlers[CHOOSE i \in QualifyingPairs(d, kind) :
                        \A j \in QualifyingPairs(d, kind) : i <= j].handler
    ELSE IF d.default_handler # "None" /\ kind \in DeclaredKinds(d.default_handler)
    THEN d.default_handler
    ELSE "None"

\* C10: every MultiDispatcher.dispatch of a dict carrying a kind resolves to the
\* handler of the first pair, in registration order, whose predicate matches
\* and whose handler registers the kind (pairs that match without the kind are
\* skipped), else to the default handler if it is set and registers the kind;
\* with no such handler the call raises NoHandlerError, and otherwise it never
\* does and the method it invokes is the resolved handler's.
C10_MultiResolution ==
    [][\A c \in Calls :
        (/\ calls[c].pc \in {"idle", "done"}
         /\ calls'[c] # calls[c]
         /\ calls'[c].entry = "multi_dispatch"
         /\ HasKind(calls'[c].data)) =>
            LET kind == KindOf(calls'[c].data)
                resolved == Resolved(disp, kind)
            IN IF resolved = "None"
               THEN calls'[c].outcome = Raised("NoHandlerError", Str(kind))
               ELSE /\ calls'[c].outcome.exc # "NoHandlerError"
                    /\ calls'[c].pending.exc # "NoHandlerError"
                    /\ Conforms(calls'[c].data) =>
                          calls'[c].invoked =
                             <<[method |-> RegisteredMethod(resolved, kind),
                                message |-> ValidatedMessage(calls'[c].data)]>>]_vars

\* chat.send went past a first pair that matches every kind but whose handler
\* (Derived) lacks it, to the second pair's handler (Shadow)
C10_Witness ==
    \E c \in Calls :
        /\ Ended(c) /\ calls[c].entry = "multi_dispatch"
        /\ Len(disp.handlers) = 2
        /\ disp.handlers[1].matcher.kind = "custom"
        /\ disp.handlers[1].handler = "Derived"
        /\ disp.handlers[2].handler = "Shadow"
        /\ HasKind(calls[c].data) /\ KindOf(calls[c].data) = ChatSend
        /\ Len(calls[c].invoked) = 1
        /\ calls[c].invoked[1].method = [fn |-> "Shadow.on_send", self |-> "Shadow"]

\* C11 (as claimed): whatever entry point invoked the handler, the value a call
\* returns is the handler's completed result, never a computation still to be
\* awaited.
C11_ReturnsCompletedResult ==
    \A c \in Calls :
        (Ended(c) /\ calls[c].outcome.kind = "return") =>
            calls[c].outcome.value.t = "value"

\* C13 (as claimed): every failure that leaves Dispatcher.dispatch or
\* MultiDispatcher.dispatch from the stages before the handler is invoked is a
\* member of the DispatchError family.
C13_OnlyDispatchErrorsEscape ==
    \A c \in Calls :
        (/\ Ended(c) /\ calls[c].entry \in {"dispatch", "multi_dispatch"}
         /\ calls[c].outcome.kind = "raise") =>
            calls[c].outcome.exc \in DispatchErrors

----------------------------------------------------------------------------
(* Claims about concurrent calls, checked under SpecConcurrent *)

\* C12: with several dispatch calls in flight on one Dispatcher, a call whose
\* handler never completes stays suspended for ever, and it alone: every other
\* call that awaits a handler either returns or is itself waiting on a handler
\* that never completes, and a call that returns returns the result of its own
\* handler for its own message.
C12_HangingHandlerBlocksOnlyItsCall ==
    /\ [][\A c \in Calls : calls[c].pc = "await_forever" => calls'[c] = calls[c]]_vars
    /\ [](\A c \in Calls :
            (Ended(c) /\ calls[c].outcome.kind = "return") =>
                calls[c].outcome.value =
                    HandlerValue(RegisteredMethod(disp.handler, KindOf(calls[c].data)),
                                 ValidatedMessage(calls[c].data)))
    /\ \A c \in Calls :
          (calls[c].pc = "await_handler") ~> (calls[c].pc \in {"done", "await_forever"})

\* one call is suspended for ever while another, whose handler also suspended,
\* has returned
C12_Witness ==
    \E c, o \in Calls :
        /\ c # o
        /\ calls[c].pc = "await_forever"
        /\ Ended(o) /\ calls[o].outcome.kind = "return"
        /\ calls[o].outcome.value.method.fn \in AsyncFns
        /\ calls[o].data # calls[c].data

----------------------------------------------------------------------------
(* Claims about the parser, checked under SpecSchema.  What a document is   *)
(* expected to give is read off the document itself.                        *)

\* the step in which from_dict returns a Protocol
Parses == protocol = NoProtocol /\ protocol'.exc = ""

\* the list under a key of a dict, empty when the key is absent
ListAt(d, key) == IF key \in DOMAIN d THEN d[key] ELSE <<>>

IsSplit(d) == "client" \in DOMAIN d \/ "server" \in DOMAIN d

\* the name and direction of every event, in order
NamesAndDirections(events) ==
    [i \in 1..Len(events) |-> [name |-> events[i].name, direction |-> events[i].direction]]

\* the events of a client or server list, with the direction of that section
SectionExpected(d, key, direction) ==
    [i \in 1..Len(ListAt(d, key)) |->
        [name |-> ListAt(d, key)[i]["name"], direction |-> direction]]

\* C14: from_dict of a document with a client or server key gives, first, one
\* CLIENT_TO_SERVER event per entry of client, in order, then one
\* SERVER_TO_CLIENT event per entry of server, in order; when the document has
\* no features these are all its events.
C14_SplitDirections ==
    [][(Parses /\ IsSplit(doc)) =>
        LET expected == SectionExpected(doc, "client", "CLIENT_TO_SERVER")
                           \o SectionExpected(doc, "server", "SERVER_TO_CLIENT")
            events == NamesAndDirections(protocol'.value.events)
        IN /\ Len(events) >= Len(expected)
           /\ SubSeq(events, 1, Len(expected)) = expected
           /\ "features" \notin DOMAIN doc => events = expected]_vars

\* client: [{name: join, fields: []}], server: [{name: joined}] gave exactly a
\* CLIENT_TO_SERVER join followed by a SERVER_TO_CLIENT joined
C14_Witness ==
    /\ protocol.exc = ""
    /\ "client" \in DOMAIN doc /\ "server" \in DOMAIN doc /\ "features" \notin DOMAIN doc
    /\ NamesAndDirections(protocol.value.events) =
          <<[name |-> Str(Join), direction |-> "CLIENT_TO_SERVER"],
            [name |-> Str(Joined), direction |-> "SERVER_TO_CLIENT"]>>

\* the lowercased names of the features the documents use
LowercasedFeature(feature_name) ==
    CASE feature_name = ChatFeature -> <<"c", "h", "a", "t">>
      [] feature_name = PresenceFeature -> <<"p", "r", "e", "s", "e", "n", "c", "e">>

\* what the events of one section of one feature are to be
FeatureSectionExpected(item, key, direction) ==
    [i \in 1..Len(ListAt(item.value, key)) |->
        [name |-> Str(LowercasedFeature(item.key) \o <<".">>
                        \o ListAt(item.value, key)[i]["name"].v),
         direction |-> direction,
         handler_group |->
            IF "handler_group" \in DOMAIN ListAt(item.value, key)[i]
            THEN ListAt(item.value, key)[i]["handler_group"]
            ELSE Str(LowercasedFeature(item.key))]]

\* the events of the features from the i-th on: features in declaration order,
\* client before server within one
RECURSIVE FeaturesExpected(_, _)
FeaturesExpected(items, i) ==
    IF i > Len(items) THEN <<>>
    ELSE FeatureSectionExpected(items[i], "client", "CLIENT_TO_SERVER")
            \o FeatureSectionExpected(items[i], "server", "SERVER_TO_CLIENT")
            \o FeaturesExpected(items, i + 1)

FeatureItems(d) == IF "features" \in DOMAIN d THEN d["features"].items ELSE <<>>

\* the last n elements of a sequence
LastN(s, n) == SubSeq(s, Len(s) - n + 1, Len(s))

\* C15: the events from_dict builds from the features blocks are named
\* "<feature name lowercased>.<event name>", have the direction of the client
\* or server section they stand in, and have the lowercased feature name as
\* handler_group unless the event gives a handler_group, which is then kept.
C15_FeatureEvents ==
    [][Parses =>
        LET expected == FeaturesExpected(FeatureItems(doc), 1)
            events == protocol'.value.events
        IN /\ Len(events) >= Len(expected)
           /\ [i \in 1..Len(expected) |->
                 [name |-> LastN(events, Len(expected))[i].name,
                  direction |-> LastN(events, Len(expected))[i].direction,
                  handler_group |-> LastN(events, Len(expected))[i].handler_group]]
              = expected]_vars

\* features: {Chat: {client: [{name: send, ...}]}} alone gave chat.send,
\* CLIENT_TO_SERVER, handler_group chat
C15_Witness ==
    /\ protocol.exc = ""
    /\ DOMAIN doc = {"name", "features"}
    /\ Len(protocol.value.events) = 1
    /\ protocol.value.events[1].name = Str(ChatSend)
    /\ protocol.value.events[1].direction = "CLIENT_TO_SERVER"
    /\ protocol.value.events[1].handler_group = Str(<<"c", "h", "a", "t">>)
    /\ protocol.value.events[1].feature = Str(ChatFeature)

\* the events of the top-level events list, each with the member its direction
\* string names
UnifiedExpected(d) ==
    [i \in 1..Len(ListAt(d, "events")) |->
        [name |-> ListAt(d, "events")[i]["name"],
         direction |-> CASE ListAt(d, "events")[i]["direction"] = "client_to_server"
                              -> "CLIENT_TO_SERVER"
                         [] ListAt(d, "events")[i]["direction"] = "server_to_client"
                              -> "SERVER_TO_CLIENT"
                         [] ListAt(d, "events")[i]["direction"] = "bidirectional"
                              -> "BIDIRECTIONAL"]]

\* C16: the events of a Protocol are those of client then server when the
\* document has either key (its events key is then ignored), else those of its
\* events key; followed in every case by the events of the features, in
\* declaration order and client before server within a feature.
C16_ShapePrecedence ==
    [][Parses =>
        NamesAndDirections(protocol'.value.events) =
            (IF IsSplit(doc)
             THEN SectionExpected(doc, "client", "CLIENT_TO_SERVER")
                     \o SectionExpected(doc, "server", "SERVER_TO_CLIENT")
             ELSE UnifiedExpected(doc))
            \o [i \in 1..Len(FeaturesExpected(FeatureItems(doc), 1)) |->
                  [name |-> FeaturesExpected(FeatureItems(doc), 1)[i].name,
                   direction |-> FeaturesExpected(FeatureItems(doc), 1)[i].direction]]]_vars

\* a document with client, events and two features gave the client event, not
\* the events entry, then the features' events
C16_Witness ==
    /\ protocol.exc = ""
    /\ {"client", "events", "features"} \subseteq DOMAIN doc /\ "server" \notin DOMAIN doc
    /\ Len(doc["features"].items) = 2
    /\ [i \in 1..Len(protocol.value.events) |-> protocol.value.events[i].name] =
          <<Str(Join),
            Str(<<"p", "r", "e", "s", "e", "n", "c", "e", ".">> \o Online),
            Str(<<"c", "h", "a", "t", ".">> \o Send),
            Str(<<"c", "h", "a", "t", ".">> \o Sent)>>

\* C17 (as claimed): when from_dict fails on a malformed document (a unified
\* event with an unrecognized or absent direction, a field without name or
\* type), the failure is a SchemaError.
C17_MalformedIsSchemaError ==
    protocol.exc \notin {"", "NotCalled"} => protocol.exc = "SchemaError"

\* C20 (as claimed): all reads of the events of a Protocol, at whatever times
\* after it was built, return the same sequence.
C20_ReadsAgree ==
    \A i, j \in 1..Len(reads) : reads[i] = reads[j]

----------------------------------------------------------------------------
(* Claims about the type mapper, checked under SpecTypeMapper *)

\* the type expression ends in " | None"
Nullable(type) ==
    /\ Len(type) >= 7
    /\ SubSeq(type, Len(type) - 6, Len(type)) = <<" ", "|", " ", "N", "o", "n", "e">>

\* C18: the type python_type gives is nullable exactly when the field is not
\* required and has no default: for every type token, and not for a required
\* field nor for an optional one with a default, falsy defaults included.
C18_OptionalWithoutDefaultIsNullable ==
    type_call # NoTypeCall =>
        (Nullable(type_call.result)
            <=> (~type_call.fld.required /\ type_call.fld.default = PyNone))

\* an optional field without default of the custom type Color gave
\* "ColorEnum | None"
C18_Witness ==
    /\ type_call # NoTypeCall
    /\ ~type_call.fld.required /\ type_call.fld.default = PyNone
    /\ type_call.fld.type = Str(TColor)
    /\ type_call.result = TColor \o <<"E", "n", "u", "m", " ", "|", " ", "N", "o", "n", "e">>

\* the type expression without its " | None"
Unwrapped(type) == IF Nullable(type) THEN SubSeq(type, 1, Len(type) - 7) ELSE type

\* C19 (as claimed): a token that is exactly a primitive alias resolves to the
\* primitive, whatever the custom-type table holds; any other token that names
\* a custom enumeration resolves to "<token>Enum"; every other token is passed
\* through unchanged.
C19_AliasesTakePrecedence ==
    type_call # NoTypeCall =>
        Unwrapped(type_call.result) =
            IF InTypeMap(type_call.fld.type.v) THEN TypeMapGet(type_call.fld.type.v)
            ELSE IF HasKey(type_call.custom_types, type_call.fld.type.v)
            THEN type_call.fld.type.v \o <<"E", "n", "u", "m">>
            ELSE type_call.fld.type.v

----------------------------------------------------------------------------
(* Claims about the order of the stages, checked under Spec *)

\* the input is, or decodes to, a dict that has the discriminator key
CarriesDiscriminator(data) == DecodesToDict(data) /\ "type" \in DOMAIN data.val.d

\* C21 (as claimed): in both dispatchers a decoded message that carries a
\* discriminator but does not conform to the union ends the call in
\* ValidationError_, whether or not a handler is registered for its kind, and
\* NoHandlerError ends only calls whose message conforms.
C21_ValidateBeforeRoute ==
    \A c \in Calls :
        Ended(c) =>
            /\ (CarriesDiscriminator(calls[c].data) /\ ~Conforms(calls[c].data)) =>
                  calls[c].outcome.exc = "ValidationError_"
            /\ calls[c].outcome.exc = "NoHandlerError" => Conforms(calls[c].data)

----------------------------------------------------------------------------
(* Claims about the two entry points of Dispatcher, checked under SpecSync *)

\* every method the handler class registers is a plain "def"
AllSynchronous(cls) == \A k \in DeclaredKinds(cls) : MostDerivedDeclaration(cls, k) \notin AsyncFns

\* C22: on a handler whose methods are all synchronous, a dispatch_sync call and
\* a dispatch call that were given the same input (text, bytes or decoded
\* value), once both have ended, have the same outcome (the same returned
\* value, or the same error with the same event kind) and have made the same
\* handler invocations.
C22_SyncAgreesWithDispatch ==
    \A c, o \in Calls :
        (/\ AllSynchronous(disp.handler)
         /\ Ended(c) /\ calls[c].entry = "dispatch_sync"
         /\ Ended(o) /\ calls[o].entry = "dispatch"
         /\ calls[c].data = calls[o].data) =>
            /\ calls[c].outcome = calls[o].outcome
            /\ calls[c].invoked = calls[o].invoked

\* the bytes {"type": "ping"} gave Plain.on_ping's value from both entry points,
\* and a dict without room gave ValidationError_ from both
C22_Witness ==
    \E c, o \in Calls :
        /\ Ended(c) /\ calls[c].entry = "dispatch_sync"
        /\ Ended(o) /\ calls[o].entry = "dispatch"
        /\ calls[c].data = calls[o].data
        /\ calls[c].data.form = "bytes"
        /\ calls[c].outcome.kind = "return"
        /\ calls[c].outcome.value.method = [fn |-> "Plain.on_ping", self |-> "Plain"]

----------------------------------------------------------------------------
(* Claims about what a Dispatcher keeps between calls, checked under         *)
(* SpecConcurrent, where calls are made one after another and side by side. *)

\* the registry a handler of class cls resolves its methods in: the one cached
\* on the class, or, before the first use, the declarations of its chain
RegistryContents(slots, hp, cls) ==
    IF slots[cls].present /\ slots[cls].obj # 0
    THEN hp[slots[cls].obj].handlers
    ELSE ResolvedDeclarations[cls]

\* C23: no step of a Dispatcher.dispatch call, successful or failing, changes
\* the dispatcher's message_type, handler, discriminator or on_error, nor the
\* contents of the handler's registry or of any registry object; and two calls
\* given the same input, whatever calls were made before each, end in the same
\* outcome with the same handler invocations.
C23_NoStateAcrossCalls ==
    [][disp.kind = "Dispatcher" =>
          /\ disp' = disp
          /\ RegistryContents(cls_registry', heap', disp.handler)
                = RegistryContents(cls_registry, heap, disp.handler)
          /\ \A o \in 1..Len(heap) : Len(heap') >= o /\ heap'[o] = heap[o]
          /\ \A c, o \in Calls :
                (/\ calls'[c].pc = "done" /\ calls'[o].pc = "done"
                 /\ calls'[c].data = calls'[o].data) =>
                    /\ calls'[c].outcome = calls'[o].outcome
                    /\ calls'[c].invoked = calls'[o].invoked]_vars

\* two calls given {"type": "chat.send"} both returned Shadow.on_send's value,
\* the registry having been built by the first of them only
C23_Witness ==
    /\ Len(heap) = 1
    /\ \A c \in {1, 2} :
          /\ Ended(c)
          /\ HasKind(calls[c].data) /\ KindOf(calls[c].data) = ChatSend
          /\ calls[c].outcome.kind = "return"
          /\ calls[c].outcome.value.method = [fn |-> "Shadow.on_send", self |-> "Shadow"]

----------------------------------------------------------------------------
(* Claims about the direction filters, checked under SpecSchema *)

\* the positions of the events whose direction is one of dirs
PositionsOf(events, dirs) == {i \in 1..Len(events) : events[i].direction \in dirs}

\* list holds exactly the events at the positions pos, in their order there
IsSubsequenceAt(list, events, pos) ==
    /\ Len(list) = Cardinality(pos)
    /\ \A i \in pos : list[Cardinality({k \in pos : k <= i})] = events[i]

Members(list) == {list[i] : i \in 1..Len(list)}

\* C24: whenever the two filters are called, client_to_server_events is the
\* subsequence of the protocol's events whose direction is CLIENT_TO_SERVER or
\* BIDIRECTIONAL, server_to_client_events the subsequence whose direction is
\* SERVER_TO_CLIENT or BIDIRECTIONAL, each in the order of the events; every
\* event is in at least one of the two lists, and in both exactly when it is
\* BIDIRECTIONAL.
C24_DirectionFilters ==
    [][filtered' # filtered =>
          LET events == protocol.value.events
          IN /\ IsSubsequenceAt(filtered'.client_to_server, events,
                                PositionsOf(events, {CLIENT_TO_SERVER, BIDIRECTIONAL}))
             /\ IsSubsequenceAt(filtered'.server_to_client, events,
                                PositionsOf(events, {SERVER_TO_CLIENT, BIDIRECTIONAL}))
             /\ \A i \in 1..Len(events) :
                   /\ events[i] \in Members(filtered'.client_to_server)
                                       \cup Members(filtered'.server_to_client)
                   /\ (events[i] \in Members(filtered'.client_to_server)
                                       \cap Members(filtered'.server_to_client))
                         <=> events[i].direction = BIDIRECTIONAL]_vars

\* a protocol holding events of all three directions was filtered: the
\* bidirectional event is in both lists, after the events authored before it
C24_Witness ==
    /\ filtered.called
    /\ Len(filtered.client_to_server) >= 2
    /\ Len(filtered.server_to_client) >= 2
    /\ filtered.client_to_server[1].direction = CLIENT_TO_SERVER
    /\ filtered.server_to_client[1].direction = SERVER_TO_CLIENT
    /\ \E i \in 2..Len(filtered.client_to_server) :
          filtered.client_to_server[i].direction = BIDIRECTIONAL
    /\ \E i \in 2..Len(filtered.server_to_client) :
          filtered.server_to_client[i].direction = BIDIRECTIONAL

----------------------------------------------------------------------------
(* Claims about create_handler_class, checked under SpecFactory *)

GivenKeys(handlers) == {handlers[i].key : i \in 1..Len(handlers)}

\* C25 (as claimed): the registry of the class create_handler_class returns
\* maps every key of handlers to the function given for that key, and every
\* other kind registered in base's chain to base's registration, and nothing
\* else; for every mapping, one function given for two kinds and kinds that
\* differ only in '.', '-' and '_' included.
C25_CreatedRegistryMapsEveryKey ==
    created.called =>
        /\ \A i \in 1..Len(created.handlers) :
              /\ created.handlers[i].key \in DOMAIN created.registry
              /\ created.registry[created.handlers[i].key] = created.handlers[i].value
        /\ \A k \in DeclaredKinds(created.base) \ GivenKeys(created.handlers) :
              /\ k \in DOMAIN created.registry
              /\ created.registry[k] = MostDerivedDeclaration(created.base, k)
        /\ DOMAIN created.registry
              = GivenKeys(created.handlers) \cup DeclaredKinds(created.base)

----------------------------------------------------------------------------
(* Claims about event names that repeat, checked under SpecSchema *)

\* an event definition the parser can build an Event from
WellFormedEvent(ev) ==
    /\ "name" \in DOMAIN ev
    /\ \A i \in 1..Len(ListAt(ev, "fields")) :
          {"name", "type"} \subseteq DOMAIN ListAt(ev, "fields")[i]

AllWellFormed(events_data) == \A i \in 1..Len(events_data) : WellFormedEvent(events_data[i])

\* every event definition the parser reads in the document is well formed
WellFormed(d) ==
    /\ IF IsSplit(d)
       THEN AllWellFormed(ListAt(d, "client")) /\ AllWellFormed(ListAt(d, "server"))
       ELSE /\ AllWellFormed(ListAt(d, "events"))
            /\ \A i \in 1..Len(ListAt(d, "events")) :
                  /\ "direction" \in DOMAIN ListAt(d, "events")[i]
                  /\ ListAt(d, "events")[i]["direction"] \in DirectionValues
    /\ \A i \in 1..Len(FeatureItems(d)) :
          /\ AllWellFormed(ListAt(FeatureItems(d)[i].value, "client"))
          /\ AllWellFormed(ListAt(FeatureItems(d)[i].value, "server"))

NamesIn(events_data) == [i \in 1..Len(events_data) |-> events_data[i]["name"]]

\* the names the events of a document resolve to, in document order
AuthoredNames(d) ==
    (IF IsSplit(d)
     THEN NamesIn(ListAt(d, "client")) \o NamesIn(ListAt(d, "server"))
     ELSE NamesIn(ListAt(d, "events")))
    \o [i \in 1..Len(FeaturesExpected(FeatureItems(d), 1)) |->
          FeaturesExpected(FeatureItems(d), 1)[i].name]

RepeatsAName(names) == \E i, j \in 1..Len(names) : i < j /\ names[i] = names[j]

\* C26: from_dict of a well-formed document in which two events resolve to the
\* same name (in one section, across client and server, or a dotted top-level
\* name and a feature-prefixed one) raises nothing, and the Protocol holds one
\* event per authored event, repeated names included, in document order.
C26_RepeatedNamesKept ==
    [][(/\ protocol = NoProtocol /\ protocol' # NoProtocol
        /\ WellFormed(doc) /\ RepeatsAName(AuthoredNames(doc))) =>
          /\ protocol'.exc = ""
          /\ [i \in 1..Len(protocol'.value.events) |-> protocol'.value.events[i].name]
                = AuthoredNames(doc)]_vars

\* events: [{name: chat.send, ...}] with feature Chat's client event send gave
\* two events named chat.send
C26_Witness ==
    /\ protocol.exc = ""
    /\ ~IsSplit(doc)
    /\ Len(protocol.value.events) = 2
    /\ protocol.value.events[1].name = Str(ChatSend)
    /\ protocol.value.events[2].name = Str(ChatSend)
    /\ protocol.value.events[1].feature = PyNone
    /\ protocol.value.events[2].feature = Str(ChatFeature)

----------------------------------------------------------------------------
(* Claims about the construction of a Dispatcher, checked under SpecConstruct *)

\* two member classes of the union have the same Literal discriminator value
SharesDiscriminatorValue(message_type) ==
    \E i, j \in 1..Len(message_type.members) :
        i < j /\ message_type.members[i].literal[1] = message_type.members[j].literal[1]

\* C27: constructing a Dispatcher over a union in which two member classes
\* resolve to the same discriminator value raises; no Dispatcher comes to
\* exist whose map holds one of the two members only.
C27_DuplicateValueFailsFast ==
    (constructed.called /\ SharesDiscriminatorValue(constructed.message_type)) =>
        constructed.exc # ""

----------------------------------------------------------------------------
(* Claims about redefined method names, checked under SpecConcurrent *)

\* the cases [cls, kind, fn]: a class above cls declares fn for kind under a
\* method name that cls itself defines again without event-kind metadata
RedefinedUnmarked ==
    {[cls |-> c, kind |-> on_event(ClassVars(b)[i].fn), fn |-> ClassVars(b)[i].fn] :
        <<c, b, i>> \in
            {x \in Classes \X Classes \X (1..2) :
                /\ x[1] # x[2]
                /\ \E k \in 1..Len(ClassMro(x[1])) : ClassMro(x[1])[k] = x[2]
                /\ x[3] <= Len(ClassVars(x[2]))
                /\ on_event(ClassVars(x[2])[x[3]].fn) # NoEvent
                /\ \E j \in 1..Len(ClassVars(x[1])) :
                      /\ ClassVars(x[1])[j].name = ClassVars(x[2])[x[3]].name
                      /\ on_event(ClassVars(x[1])[j].fn) = NoEvent}}

\* C28: where a subclass redefines, without event-kind metadata, the name of a
\* base-class method that carries kind K, every registry built for the
\* subclass maps K to the base class's function, and a dispatch of kind K on
\* a subclass instance invokes that function bound to the instance, never the
\* subclass's method of the same name.
C28_KeyedByMetadataNotName ==
    \A s \in RedefinedUnmarked :
        /\ \A i \in DOMAIN heap :
              heap[i].cls = s.cls =>
                  /\ s.kind \in DOMAIN heap[i].handlers
                  /\ heap[i].handlers[s.kind] = s.fn
        /\ \A c \in Calls :
              (/\ disp.handler = s.cls
               /\ calls[c].invoked # <<>>
               /\ calls[c].invoked[1].message.fields[Discriminator] = Str(s.kind)) =>
                  calls[c].invoked[1].method = [fn |-> s.fn, self |-> s.cls]

\* {"type": "ping"} dispatched on a Shadow instance reached Base.on_ping
C28_Witness ==
    /\ [cls |-> "Shadow", kind |-> Ping, fn |-> "Base.on_ping"] \in RedefinedUnmarked
    /\ disp.handler = "Shadow"
    /\ \E c \in Calls :
          /\ calls[c].pc = "done"
          /\ Len(calls[c].invoked) = 1
          /\ calls[c].invoked[1].method = [fn |-> "Base.on_ping", self |-> "Shadow"]
          /\ calls[c].invoked[1].message.fields[Discriminator] = Str(Ping)
    /\ \E i \in DOMAIN heap : heap[i].cls = "Shadow"

----------------------------------------------------------------------------
(* Claims about the demo service's file-content endpoint, checked under SpecFiles *)

\* the path lies in the directory, or is the directory itself
InsideDir(p, dir) == Len(dir) <= Len(p) /\ SubSeq(p, 1, Len(dir)) = dir

\* where the requested path of the last file-content request resolves to
ResolvedPath == AbsJoin(sessions[response.session_id], response.path)

\* C29: the file-content endpoint answers an unknown session id with 404 and
\* no content, answers every path that resolves outside the session's
\* directory (paths with ".." segments included) with 403, and returns content
\* only of a file inside the session's directory.
C29_OnlyFilesInsideSessionDir ==
    response.endpoint = "file" =>
        IF response.session_id \notin DOMAIN sessions
        THEN response.status = 404 /\ response.content = NoContent
        ELSE /\ ~InsideDir(ResolvedPath, sessions[response.session_id]) =>
                    response.status = 403
             /\ response.status = 200 =>
                    /\ InsideDir(ResolvedPath, sessions[response.session_id])
                    /\ response.content =
                          <<response.session_id,
                            SubSeq(ResolvedPath, Len(sessions[response.session_id]) + 1,
                                   Len(ResolvedPath))>>

----------------------------------------------------------------------------
(* Claims about the demo service's download endpoint, checked under SpecDownloads *)

\* the files of the groups a request names, in the request's session
RequestedEntries(session_id, target_list) ==
    {[arcname |-> SubSeq(f.path, Len(sessions[session_id]) + 1, Len(f.path)),
      content |-> f.content] :
        f \in {g \in disk :
                 /\ InsideDir(g.path, sessions[session_id])
                 /\ \E i \in 1..Len(target_list) :
                       g.path[Len(sessions[session_id]) + 1] = target_list[i]}}

\* C30: the archive a download request was sent holds exactly the files of the
\* artifact groups its targets name in its session, whatever other download
\* requests were processed between its writing and its sending.
C30_ArchiveIsTheRequested ==
    \A r \in Downloads :
        (downloads[r].pc = "done" /\ downloads[r].status = 200) =>
            downloads[r].body = RequestedEntries(downloads[r].session_id, downloads[r].targets)

=============================================================================
